---- MODULE Spec2Model ----
(***************************************************************************)
(* A model of the hub (src/unity.py) and of the agent (src/rpi.py): the    *)
(* four relay cells of the hub with their request handlers, the agent's    *)
(* command-forwarding loop and the lyric scheduler.                        *)
(*                                                                         *)
(* Each request handler runs in its own thread (Flask's threaded server),  *)
(* so a handler is a small process: a slot of Handlers with a program      *)
(* counter and its locals.  A step of a handler is one access to shared    *)
(* state (a `with lock:` block, a clock read, a file-system access).       *)
(* Wall-clock time is the integer variable now, in seconds.                *)
(***************************************************************************)
EXTENDS Integers, Sequences, FiniteSets, Bags, TLC

\* ------------------------------------------------------------------ bounds
NumHandlers == 2
MaxTime == 5
MaxTriggers == 3
MaxPolls == 3
MaxLines == 2
MaxPublishes == 2
MaxAbandoned == 1

Handlers == 1..NumHandlers
None == "None"

Max(a, b) == IF a >= b THEN a ELSE b

VARIABLES
  \* the wall clock read by time.time()
  now,
  \* CommandStation: the cell (src/unity.py:32), the handlers of /command
  current_command, cmd_pc, cmd_key, cmd_out, lastKey,
  \* AudioHandoff: the flag (src/unity.py:42), the file ask.mp3, the handlers
  pending_audio_ready, audio_file, aud_pc, aud_saw, aud_out,
  nTrig, nPass, nContent, trigSincePoll,
  \* TranscriptBoard: the cell (src/unity.py:45-46), the requests in flight
  current_transcript, transcript_expire_time, tr_req, tr_out, lastPub, prevPub,
  nPub,
  \* FrameRelay: the slot (src/unity.py:27), the handlers
  latest_frame_bytes, fr_pc, fr_payload, fr_bytes, fr_out, lastPayload,
  lastWellFormed, prevPayload,
  \* the agent's command-forwarding loop (src/rpi.py:345-420)
  last_cmd, ser, port_available, fw_pc, fw_cmd, polled, sends, arduino,
  last_frame_jpeg, photos, jpeg_data,
  \* the agent's capture loop (src/rpi.py:452-482)
  cam_pc, cam_pushed, cam_resp,
  \* the outcome of the command loop's last poll
  fw_resp,
  \* the agent's lyric scheduler (src/rpi.py:180-223)
  sch_pc, synced_lyrics, lines, start_time, idx, transcript_calls, flow,
  \* the time at which spotify.play_song returned
  played_at,
  \* the agent's audio-consuming loop (src/rpi.py:261-307)
  ap_pc, ap_resp, ap_abandoned, audio_saved, pipeline_runs, nLost,
  \* process_audio_file inside that loop (src/rpi.py:226-257)
  pl_pc, pl_failed,
  \* the locks of the hub and of the agent, and the threads that take them
  lk_holder, lk_op, lk_pos,
  \* the threads of the agent under observation (src/rpi.py:494-504), and
  \* whether main has started them
  scope, started

cmdVars == <<current_command, cmd_pc, cmd_key, cmd_out, lastKey>>
audVars == <<pending_audio_ready, audio_file, aud_pc, aud_saw, aud_out,
             nTrig, nPass, nContent, trigSincePoll>>
trVars == <<current_transcript, transcript_expire_time, tr_req, tr_out, lastPub,
            prevPub, nPub>>
frVars == <<latest_frame_bytes, fr_pc, fr_payload, fr_bytes, fr_out, lastPayload,
            lastWellFormed, prevPayload>>
fwVars == <<last_cmd, ser, port_available, fw_pc, fw_cmd, polled, sends, arduino,
            last_frame_jpeg, photos, jpeg_data, cam_pc, cam_pushed, cam_resp,
            fw_resp>>
camCtl == <<cam_pc, cam_pushed, cam_resp>>
schVars == <<sch_pc, synced_lyrics, lines, start_time, idx, transcript_calls, flow,
             played_at>>
apVars == <<ap_pc, ap_resp, ap_abandoned, audio_saved, pipeline_runs, nLost,
            pl_pc, pl_failed>>
plVars == <<pl_pc, pl_failed>>
lkVars == <<lk_holder, lk_op, lk_pos>>
vars == <<now, cmdVars, audVars, trVars, frVars, fwVars, schVars, apVars, lkVars,
          scope, started>>

notCmd == <<now, audVars, trVars, frVars, fwVars, schVars, apVars,
           lkVars, scope, started>>
notAud == <<now, cmdVars, trVars, frVars, fwVars, schVars, apVars,
           lkVars, scope, started>>
notTr == <<cmdVars, audVars, frVars, fwVars, schVars, apVars,
           lkVars, scope, started>>
notFr == <<now, cmdVars, audVars, trVars, fwVars, schVars, apVars,
           lkVars, scope, started>>
notFw == <<now, cmdVars, audVars, trVars, frVars, schVars, apVars,
           lkVars, scope, started>>
notSch == <<cmdVars, audVars, trVars, frVars, fwVars, apVars,
           lkVars, scope, started>>
notAp == <<now, cmdVars, trVars, frVars, fwVars, schVars,
           lkVars, scope, started>>
notLk == <<now, cmdVars, audVars, trVars, frVars, fwVars, schVars, apVars, scope, started>>

\* ------------------------------------------------- CommandStation (hub)

\* The raw inputs of a command write: what the browser or the terminal sends.
RawKeys == {"W", "w", " w", "a", "S", "D", "x", "X", "P", "p", "Q", ""}

\* str.upper() on the raw inputs.
Upper(s) ==
  CASE s = "w" -> "W" [] s = " w" -> " W" [] s = "a" -> "A" [] s = "x" -> "X"
    [] s = "p" -> "P" [] OTHER -> s

\* str.strip() on the raw inputs.
Strip(s) == IF s = " w" THEN "w" ELSE s

\* The keys both entry points accept.
MovementKeys == {"W", "A", "S", "D", "X"}

\* The mapping table of set_current_command_from_key.
mapping ==
  [k \in {"W", "S", "A", "D", "X", "P"} |->
     CASE k = "W" -> "FORWARD" [] k = "S" -> "BACKWARD" [] k = "A" -> "LEFT"
       [] k = "D" -> "RIGHT" [] k = "X" -> "Not Moving" [] k = "P" -> "PHOTO"]

\* The check of POST /command and of the keyboard loop on the normalised key.
command_accepted_any(cmd) == cmd \in DOMAIN mapping
command_accepted(cmd) == cmd \in MovementKeys

\* set_current_command_from_key: the value of current_command afterwards.
set_current_command_from_key(cmd, cur) ==
  IF Upper(cmd) \notin DOMAIN mapping THEN cur ELSE mapping[Upper(cmd)]

\* GET /command: the token a read returns.
getLatestCommand == IF current_command = "" THEN "NOT_MOVING" ELSE current_command

\* The history variable follows the claim's notion of an accepted write.
NoteKey(k) == lastKey' = IF k \in MovementKeys THEN k ELSE lastKey

\* POST /command, up to the validation: a rejected request ends here with 400.
CommandPost(h, raw) ==
  /\ cmd_pc[h] = "idle"
  /\ LET cmd == Upper(raw) IN
       IF ~command_accepted(cmd)
       THEN /\ cmd_out' = [req |-> "post", status |-> 400, body |-> "invalid command"]
            /\ UNCHANGED <<cmd_pc, cmd_key>>
       ELSE /\ cmd_pc' = [cmd_pc EXCEPT ![h] = "set"]
            /\ cmd_key' = [cmd_key EXCEPT ![h] = cmd]
            /\ UNCHANGED cmd_out
  /\ UNCHANGED <<current_command, lastKey>>
  /\ UNCHANGED notCmd

\* POST /command, the call of set_current_command_from_key and the response.
CommandSet(h) ==
  /\ cmd_pc[h] = "set"
  /\ current_command' = set_current_command_from_key(cmd_key[h], current_command)
  /\ NoteKey(cmd_key[h])
  /\ cmd_pc' = [cmd_pc EXCEPT ![h] = "idle"]
  /\ cmd_out' = [req |-> "post", status |-> 200, body |-> "ok"]
  /\ cmd_key' = [cmd_key EXCEPT ![h] = ""]
  /\ UNCHANGED notCmd

\* GET /command.
CommandGet(h) ==
  /\ cmd_pc[h] = "idle"
  /\ cmd_out' = [req |-> "get", status |-> 200, body |-> getLatestCommand]
  /\ UNCHANGED <<current_command, cmd_pc, cmd_key, lastKey>>
  /\ UNCHANGED notCmd

\* One line typed at the terminal of keyboard_loop.
KeyboardInput(raw) ==
  LET cmd == Upper(Strip(raw)) IN
    /\ IF command_accepted(cmd)
       THEN /\ current_command' = set_current_command_from_key(cmd, current_command)
            /\ NoteKey(cmd)
            /\ cmd_out' = [req |-> "key", status |-> 200, body |-> cmd]
       ELSE /\ cmd_out' = [req |-> "key", status |-> 400, body |-> "Invalid command"]
            /\ UNCHANGED <<current_command, lastKey>>
    /\ UNCHANGED <<cmd_pc, cmd_key>>
    /\ UNCHANGED notCmd

CommandInit ==
  /\ current_command = "NOT_MOVING"
  /\ cmd_pc = [h \in Handlers |-> "idle"]
  /\ cmd_key = [h \in Handlers |-> ""]
  /\ cmd_out = [req |-> "none", status |-> 0, body |-> ""]
  /\ lastKey = None

CommandNext ==
  \/ \E h \in Handlers, raw \in RawKeys : CommandPost(h, raw)
  \/ \E h \in Handlers : CommandSet(h)
  \/ \E h \in Handlers : CommandGet(h)
  \/ \E raw \in RawKeys : KeyboardInput(raw)

\* --------------------------------------------------- AudioHandoff (hub)

\* ask.mp3 is a file beside the hub, which the hub only reads: it may be
\* deleted or put back at any time (os.path.exists, send_file).
AudioFileRemoved ==
  /\ audio_file
  /\ audio_file' = FALSE
  /\ UNCHANGED <<pending_audio_ready, aud_pc, aud_saw, aud_out, nTrig, nPass,
                 nContent, trigSincePoll>>
  /\ UNCHANGED notAud

AudioFileCreated ==
  /\ ~audio_file
  /\ audio_file' = TRUE
  /\ UNCHANGED <<pending_audio_ready, aud_pc, aud_saw, aud_out, nTrig, nPass,
                 nContent, trigSincePoll>>
  /\ UNCHANGED notAud

\* send_audio: the flag after `pending_audio_ready = True`.
trigger_toggles(pending) == ~pending
trigger_sets(pending) == TRUE

\* audio: the flag after a poll found it set.
test_no_clear(pending) == pending
test_and_clear(pending) == FALSE

\* POST /send-audio, the existence check: 404 when ask.mp3 is absent.
SendAudioCheck(h) ==
  /\ aud_pc[h] = "idle"
  /\ nTrig < MaxTriggers
  /\ IF ~audio_file
     THEN /\ aud_out' = [req |-> "trigger", status |-> 404, by |-> h, saw |-> 0,
                         readable |-> FALSE]
          /\ UNCHANGED aud_pc
     ELSE /\ aud_pc' = [aud_pc EXCEPT ![h] = "set"]
          /\ UNCHANGED aud_out
  /\ UNCHANGED <<pending_audio_ready, audio_file, aud_saw, nTrig, nPass, nContent,
                 trigSincePoll>>
  /\ UNCHANGED notAud

\* POST /send-audio, `with pending_audio_lock: pending_audio_ready = True`.
SendAudioSet(h) ==
  /\ aud_pc[h] = "set"
  /\ pending_audio_ready' = trigger_sets(pending_audio_ready)
  /\ aud_pc' = [aud_pc EXCEPT ![h] = "idle"]
  /\ aud_out' = [req |-> "trigger", status |-> 200, by |-> h, saw |-> 0,
                 readable |-> TRUE]
  /\ nTrig' = nTrig + 1
  /\ trigSincePoll' = trigSincePoll + 1
  /\ UNCHANGED <<audio_file, aud_saw, nPass, nContent>>
  /\ UNCHANGED notAud

\* GET /audio, the block under pending_audio_lock: 204 when nothing is pending,
\* else the flag is reset and the handler goes on to read the file.
AudioTestAndClear(h) ==
  /\ aud_pc[h] = "idle"
  /\ IF ~pending_audio_ready
     THEN /\ aud_out' = [req |-> "poll", status |-> 204, by |-> h,
                         saw |-> trigSincePoll, readable |-> FALSE]
          /\ UNCHANGED <<pending_audio_ready, aud_pc, aud_saw, nPass>>
     ELSE /\ pending_audio_ready' = test_and_clear(pending_audio_ready)
          /\ aud_pc' = [aud_pc EXCEPT ![h] = "send"]
          /\ aud_saw' = [aud_saw EXCEPT ![h] = trigSincePoll]
          /\ nPass' = nPass + 1
          /\ UNCHANGED aud_out
  /\ trigSincePoll' = 0
  /\ UNCHANGED <<audio_file, nTrig, nContent>>
  /\ UNCHANGED notAud

\* GET /audio, send_file outside the lock: 500 when the file cannot be read.
AudioSendFile(h) ==
  /\ aud_pc[h] = "send"
  /\ aud_pc' = [aud_pc EXCEPT ![h] = "idle"]
  /\ aud_out' = [req |-> "poll", status |-> IF audio_file THEN 200 ELSE 500,
                 by |-> h, saw |-> aud_saw[h], readable |-> audio_file]
  /\ aud_saw' = [aud_saw EXCEPT ![h] = 0]
  /\ nContent' = IF audio_file THEN nContent + 1 ELSE nContent
  /\ UNCHANGED <<pending_audio_ready, audio_file, nTrig, nPass, trigSincePoll>>
  /\ UNCHANGED notAud

AudioInit ==
  /\ pending_audio_ready = FALSE
  /\ audio_file = TRUE
  /\ aud_pc = [h \in Handlers |-> "idle"]
  /\ aud_saw = [h \in Handlers |-> 0]
  /\ aud_out = [req |-> "none", status |-> 0, by |-> 0, saw |-> 0, readable |-> FALSE]
  /\ nTrig = 0
  /\ nPass = 0
  /\ nContent = 0
  /\ trigSincePoll = 0

AudioNext ==
  \/ AudioFileRemoved
  \/ AudioFileCreated
  \/ \E h \in Handlers : SendAudioCheck(h)
  \/ \E h \in Handlers : SendAudioSet(h)
  \/ \E h \in Handlers : AudioTestAndClear(h)
  \/ \E h \in Handlers : AudioSendFile(h)

\* ------------------------------------------------- TranscriptBoard (hub)

\* The fixed grace period added to every duration.
GRACE == 5

\* A request body is the sequence of its whitespace-separated tokens: strip()
\* and split() see nothing else of it.  A body of whitespace alone is <<>>.
TranscriptBodies ==
  { <<>>, <<"1", "hello">>, <<"0", "second">>, <<"-2", "late">> }

\* float(): the tokens it parses, with their values; on any other it raises.
float_value ==
  [tok \in {"-2", "0", "1", "10"} |->
     CASE tok = "-2" -> -2 [] tok = "0" -> 0 [] tok = "1" -> 1 [] tok = "10" -> 10]

\* raw.split(maxsplit=1) and the two branches on len(parts).
parse_transcript(raw) ==
  IF Len(raw) = 1
  THEN [duration_str |-> "0", text |-> raw]
  ELSE [duration_str |-> raw[1], text |-> Tail(raw)]

\* try: float(duration_str) except (TypeError, ValueError): 0.0
to_duration_leading_digits(duration_str) ==
  IF duration_str \in DOMAIN float_value THEN float_value[duration_str]
  ELSE IF duration_str = "3s" THEN 3 ELSE 0
to_duration(duration_str) ==
  IF duration_str \in DOMAIN float_value THEN float_value[duration_str] ELSE 0

\* display_seconds = max(0.0, duration) + 5.0
display_seconds_unclamped(duration) == duration + GRACE
display_seconds(duration) == Max(0, duration) + GRACE

\* The expiry the store leaves in the cell: the new one, whatever the old one.
stored_expiry_longest(old, new) == Max(old, new)
stored_expiry(old, new) == new

\* The text the store leaves in the cell: the new one, whatever the old one.
stored_text_first(old, new) == IF old = <<>> THEN new ELSE old
stored_text(old, new) == new

\* latest_transcript: the text a read returns at its time n.
expired(n, expire) == n >= expire
latest_transcript(n) ==
  IF current_transcript = <<>> \/ expired(n, transcript_expire_time)
  THEN <<>>
  ELSE current_transcript

\* What a publish of body raw at time t asks for: the duration prefix when the
\* body has one, and the text after it.
NoPub == [some |-> FALSE, t |-> 0, explicit |-> FALSE, d |-> 0, text |-> <<>>]
Asked(raw, t) ==
  LET explicit == Len(raw) >= 2 /\ raw[1] \in DOMAIN float_value IN
    [some |-> TRUE, t |-> t, explicit |-> explicit,
     d |-> IF explicit THEN float_value[raw[1]] ELSE 0,
     text |-> IF explicit THEN Tail(raw) ELSE raw]

\* The text a read at time n is due, given the publish that was stored last.
Due(n, pub) ==
  IF pub.some /\ n < pub.t + Max(0, pub.d) + 5 THEN pub.text ELSE <<>>

\* The answer of the handler that finished last, until its client has it.  A
\* handler takes a step once that answer is with its client: the hand-over
\* touches nothing shared, so the order of the steps on the cell is not restricted.
NoAnswer == [req |-> "none", status |-> 0, transcript |-> <<>>, at |-> 0]

\* The requests the hub's threads are serving, between their two steps, as a
\* bag: which thread serves a request makes no difference.  A publish holds the
\* text and the expiry it computed, a read the time it read.
PublishRequest(raw, t) ==
  LET p == parse_transcript(raw) IN
    [pc |-> "store", text |-> p.text,
     expires_at |-> t + display_seconds(to_duration(p.duration_str)),
     now |-> 0, pub |-> Asked(raw, t)]
ReadRequest(t) ==
  [pc |-> "read", text |-> <<>>, expires_at |-> 0, now |-> t, pub |-> NoPub]
Serving(pc) == {r \in BagToSet(tr_req) : r.pc = pc}
StoresInFlight == BagCardinality([r \in Serving("store") |-> tr_req[r]])

\* POST /transcript up to the clock read: 400 on an empty body.
TranscriptPost(raw) ==
  /\ tr_out = NoAnswer
  /\ BagCardinality(tr_req) < NumHandlers
  /\ nPub + StoresInFlight < MaxPublishes
  /\ IF raw = <<>>
     THEN /\ tr_out' = [req |-> "post", status |-> 400, transcript |-> <<>>,
                        at |-> 0]
          /\ UNCHANGED tr_req
     ELSE /\ tr_req' = tr_req (+) SetToBag({PublishRequest(raw, now)})
          /\ UNCHANGED tr_out
  /\ UNCHANGED <<now, current_transcript, transcript_expire_time, lastPub,
                 prevPub, nPub>>
  /\ UNCHANGED notTr

\* POST /transcript, the block under transcript_lock and the response.
TranscriptStore(r) ==
  /\ tr_out = NoAnswer
  /\ r.pc = "store"
  /\ current_transcript' = stored_text(current_transcript, r.text)
  /\ transcript_expire_time' = stored_expiry(transcript_expire_time, r.expires_at)
  /\ tr_req' = tr_req (-) SetToBag({r})
  /\ tr_out' = [req |-> "post", status |-> 200, transcript |-> <<>>, at |-> 0]
  /\ lastPub' = r.pub
  /\ prevPub' = lastPub
  /\ nPub' = nPub + 1
  /\ UNCHANGED now
  /\ UNCHANGED notTr

\* GET /transcript/latest, the clock read before the lock.
TranscriptClock ==
  /\ tr_out = NoAnswer
  /\ BagCardinality(tr_req) < NumHandlers
  /\ tr_req' = tr_req (+) SetToBag({ReadRequest(now)})
  /\ UNCHANGED <<now, current_transcript, transcript_expire_time, tr_out, lastPub,
                 prevPub, nPub>>
  /\ UNCHANGED notTr

\* GET /transcript/latest, the block under transcript_lock and the response.
TranscriptRead(r) ==
  /\ tr_out = NoAnswer
  /\ r.pc = "read"
  /\ tr_req' = tr_req (-) SetToBag({r})
  /\ tr_out' = [req |-> "get", status |-> 200,
                transcript |-> latest_transcript(r.now), at |-> r.now]
  /\ UNCHANGED <<now, current_transcript, transcript_expire_time, lastPub, prevPub,
                 nPub>>
  /\ UNCHANGED notTr

\* The return of a transcript handler: its answer reaches the client.
TranscriptReturn ==
  /\ tr_out # NoAnswer
  /\ tr_out' = NoAnswer
  /\ UNCHANGED <<now, current_transcript, transcript_expire_time, tr_req, lastPub,
                 prevPub, nPub>>
  /\ UNCHANGED notTr

\* A second passes.
Tick ==
  /\ now < MaxTime
  /\ now' = now + 1
  /\ UNCHANGED <<cmdVars, audVars, trVars, frVars, fwVars, schVars, apVars, lkVars,
                 scope, started>>

TranscriptInit ==
  /\ current_transcript = <<>>
  /\ transcript_expire_time = 0
  /\ tr_req = EmptyBag
  /\ tr_out = NoAnswer
  /\ lastPub = NoPub
  /\ prevPub = NoPub
  /\ nPub = 0

TranscriptNext ==
  \/ \E raw \in TranscriptBodies : TranscriptPost(raw)
  \/ \E r \in BagToSet(tr_req) : TranscriptStore(r)
  \/ TranscriptClock
  \/ \E r \in BagToSet(tr_req) : TranscriptRead(r)
  \/ TranscriptReturn
  \/ (tr_out = NoAnswer /\ Tick)

\* ------------------------------------------------------ FrameRelay (hub)

NoFrame == "NoFrame"

\* The value of the "frame" field of a push: absent, empty, text that
\* base64.b64decode refuses, and the base64 text of three byte strings, of which
\* "junk" is no image.
Missing == "missing"
FramePayloads == {Missing, "", "b64?", "b64:junk", "b64:jpegA", "b64:jpegB"}

\* base64.b64decode: the payloads it decodes, with their bytes; on any other it raises.
b64decode ==
  [p \in {"b64:junk", "b64:jpegA", "b64:jpegB"} |->
     CASE p = "b64:junk" -> "junk" [] p = "b64:jpegA" -> "jpegA"
       [] p = "b64:jpegB" -> "jpegB"]

\* cv2.imdecode(...) is not None: the byte strings that are images.
is_image(bytes) == bytes \in {"jpegA", "jpegB"}

\* receive (the stand-alone viewer): the status it answers a push with.
receive(payload) ==
  IF payload \in {Missing, ""} THEN 400
  ELSE IF payload \notin DOMAIN b64decode THEN 500
  ELSE IF ~is_image(b64decode[payload]) THEN 400
  ELSE 200

\* receive_frame: the slot after `latest_frame_bytes = frame_bytes`.
store_frame_first_wins(old, new) == IF old = NoFrame THEN new ELSE old
store_frame(old, new) == new

\* POST /send up to the decoding: 400 without a frame, 500 when b64decode raises.
FramePost(h, payload) ==
  /\ fr_pc[h] = "idle"
  /\ IF payload \in {Missing, ""}
     THEN /\ fr_out' = [req |-> "push", status |-> 400, body |-> "", payload |-> payload]
          /\ UNCHANGED <<fr_pc, fr_payload, fr_bytes>>
     ELSE IF payload \notin DOMAIN b64decode
     THEN /\ fr_out' = [req |-> "push", status |-> 500, body |-> "", payload |-> payload]
          /\ UNCHANGED <<fr_pc, fr_payload, fr_bytes>>
     ELSE /\ fr_pc' = [fr_pc EXCEPT ![h] = "store"]
          /\ fr_payload' = [fr_payload EXCEPT ![h] = payload]
          /\ fr_bytes' = [fr_bytes EXCEPT ![h] = b64decode[payload]]
          /\ UNCHANGED fr_out
  /\ UNCHANGED <<latest_frame_bytes, lastPayload, lastWellFormed, prevPayload>>
  /\ UNCHANGED notFr

\* POST /send, the block under frame_lock and the response.
FrameStore(h) ==
  /\ fr_pc[h] = "store"
  /\ latest_frame_bytes' = store_frame(latest_frame_bytes, fr_bytes[h])
  /\ fr_pc' = [fr_pc EXCEPT ![h] = "idle"]
  /\ fr_out' = [req |-> "push", status |-> 200, body |-> "", payload |-> fr_payload[h]]
  /\ lastPayload' = fr_payload[h]
  /\ prevPayload' = lastPayload
  /\ lastWellFormed' = IF is_image(b64decode[fr_payload[h]])
                       THEN b64decode[fr_payload[h]] ELSE lastWellFormed
  /\ fr_payload' = [fr_payload EXCEPT ![h] = Missing]
  /\ fr_bytes' = [fr_bytes EXCEPT ![h] = NoFrame]
  /\ UNCHANGED notFr

\* GET /latest.jpg, all of it under frame_lock.
latest_jpg(h) ==
  /\ fr_pc[h] = "idle"
  /\ fr_out' = IF latest_frame_bytes = NoFrame
               THEN [req |-> "get", status |-> 404, body |-> "", payload |-> lastPayload]
               ELSE [req |-> "get", status |-> 200, body |-> latest_frame_bytes,
                     payload |-> lastPayload]
  /\ UNCHANGED <<latest_frame_bytes, fr_pc, fr_payload, fr_bytes, lastPayload,
                 lastWellFormed, prevPayload>>
  /\ UNCHANGED notFr

FrameInit ==
  /\ latest_frame_bytes = NoFrame
  /\ fr_pc = [h \in Handlers |-> "idle"]
  /\ fr_payload = [h \in Handlers |-> Missing]
  /\ fr_bytes = [h \in Handlers |-> NoFrame]
  /\ fr_out = [req |-> "none", status |-> 0, body |-> "", payload |-> Missing]
  /\ lastPayload = Missing
  /\ lastWellFormed = NoFrame
  /\ prevPayload = Missing

FrameNext ==
  \/ \E h \in Handlers, payload \in FramePayloads : FramePost(h, payload)
  \/ \E h \in Handlers : FrameStore(h)
  \/ \E h \in Handlers : latest_jpg(h)

\* ------------------------------------ command-forwarding loop (agent)

\* The bodies GET /command may answer with: those the hub can hold, and PHOTO,
\* an unknown token and an empty body, which another server may send.
PolledBodies == {"NOT_MOVING", "Not Moving", "FORWARD", "LEFT", "PHOTO", "bogus", ""}

\* raw_text.split()[0].upper() if raw_text else ""
first_token_upper(raw_text) ==
  CASE raw_text = "Not Moving" -> "NOT" [] raw_text = "bogus" -> "BOGUS"
    [] OTHER -> raw_text

\* The table dirs of command_poll_loop.
dirs_forwarding_unknown ==
  [t \in {"FORWARD", "BACKWARD", "LEFT", "RIGHT", "NOT", "STOP", "NOTMOVING",
          "NOT_MOVING", "NOT MOVING", "BOGUS"} |->
     CASE t = "FORWARD" -> "W" [] t = "BACKWARD" -> "S" [] t = "LEFT" -> "A"
       [] t = "RIGHT" -> "D" [] t = "BOGUS" -> "B" [] OTHER -> "X"]
dirs ==
  [t \in {"FORWARD", "BACKWARD", "LEFT", "RIGHT", "NOT", "STOP", "NOTMOVING",
          "NOT_MOVING", "NOT MOVING"} |->
     CASE t = "FORWARD" -> "W" [] t = "BACKWARD" -> "S" [] t = "LEFT" -> "A"
       [] t = "RIGHT" -> "D" [] OTHER -> "X"]

\* if mapped_cmd != last_cmd
should_send_always(mapped_cmd, last) == TRUE
should_send(mapped_cmd, last) == mapped_cmd # last

\* One iteration of command_poll_loop up to the call of send_command_to_arduino
\* or to the write of a snapshot: the GET fails ("exception"), answers another
\* status ("status"), or answers 200 with raw_text.  On PHOTO the loop reads
\* last_frame_jpeg under last_frame_lock and goes on to save it if there is one.
CommandPoll(outcome, raw_text) ==
  /\ fw_pc = "poll"
  /\ Len(polled) < MaxPolls
  /\ IF outcome # "ok"
     THEN /\ fw_pc' = "failed"
          /\ UNCHANGED <<fw_cmd, polled, jpeg_data>>
     ELSE LET token == first_token_upper(raw_text) IN
          /\ polled' = Append(polled, raw_text)
          /\ IF token = "PHOTO"
             THEN IF last_frame_jpeg = NoFrame
                  THEN UNCHANGED <<fw_pc, fw_cmd, jpeg_data>>
                  ELSE /\ fw_pc' = "snap"
                       /\ jpeg_data' = last_frame_jpeg
                       /\ UNCHANGED fw_cmd
             ELSE IF token \in DOMAIN dirs /\ should_send(dirs[token], last_cmd)
             THEN /\ fw_pc' = "send"
                  /\ fw_cmd' = dirs[token]
                  /\ UNCHANGED jpeg_data
             ELSE UNCHANGED <<fw_pc, fw_cmd, jpeg_data>>
  /\ fw_resp' = outcome
  /\ UNCHANGED <<last_cmd, ser, port_available, sends, arduino, last_frame_jpeg,
                 photos>>
  /\ UNCHANGED camCtl
  /\ UNCHANGED notFw

\* After a failed poll: the log line, time.sleep(COMMAND_POLL_INTERVAL) and the
\* top of the loop.
CommandPollSleep ==
  /\ fw_pc = "failed"
  /\ fw_pc' = "poll"
  /\ UNCHANGED <<last_cmd, ser, port_available, fw_cmd, polled, sends, arduino,
                 last_frame_jpeg, photos, jpeg_data>>
  /\ UNCHANGED camCtl
  /\ UNCHANGED fw_resp
  /\ UNCHANGED notFw

\* The bytes a snapshot writes: those read under the lock, whatever the cell
\* holds by the time of the write.
snapshot_rereads(read, cell) == cell
snapshot_source(read, cell) == read

\* The write of the snapshot to a file named after the second it is made in;
\* an OSError is logged and leaves no snapshot.
PhotoSave(saved) ==
  /\ fw_pc = "snap"
  /\ photos' = IF saved
               THEN Append(photos, [name |-> now,
                                    data |-> snapshot_source(jpeg_data, last_frame_jpeg)])
               ELSE photos
  /\ jpeg_data' = NoFrame
  /\ fw_pc' = "poll"
  /\ UNCHANGED <<last_cmd, ser, port_available, fw_cmd, polled, sends, arduino,
                 last_frame_jpeg>>
  /\ UNCHANGED camCtl
  /\ UNCHANGED fw_resp
  /\ UNCHANGED notFw

\* send_command_to_arduino with no connection: init_serial, which returns once
\* serial.Serial(...) succeeds and retries every 2 seconds until then.
init_serial ==
  /\ fw_pc = "send"
  /\ ser = None
  /\ port_available
  /\ ser' = "open"
  /\ UNCHANGED <<last_cmd, port_available, fw_pc, fw_cmd, polled, sends, arduino,
                 last_frame_jpeg, photos, jpeg_data>>
  /\ UNCHANGED camCtl
  /\ UNCHANGED fw_resp
  /\ UNCHANGED notFw

\* send_command_to_arduino, `except serial.SerialException`: ser = None.
handle_kept(handle) == handle
handle_after_failure(handle) == None

\* last_cmd = mapped_cmd, after the call of send_command_to_arduino.
forwarded_unrecorded(last, mapped_cmd) == last
forwarded_after(last, mapped_cmd) == mapped_cmd

\* send_command_to_arduino, ser.write: on SerialException the handle is dropped.
\* Back in the loop, last_cmd = mapped_cmd either way.
SerialWrite(ok) ==
  /\ fw_pc = "send"
  /\ ser # None
  /\ ok => port_available
  /\ sends' = Append(sends, fw_cmd)
  /\ IF ok
     THEN /\ arduino' = Append(arduino, fw_cmd)
          /\ UNCHANGED ser
     ELSE /\ ser' = handle_after_failure(ser)
          /\ UNCHANGED arduino
  /\ last_cmd' = forwarded_after(last_cmd, fw_cmd)
  /\ fw_pc' = "poll"
  /\ UNCHANGED <<port_available, fw_cmd, polled, last_frame_jpeg, photos, jpeg_data>>
  /\ UNCHANGED camCtl
  /\ UNCHANGED fw_resp
  /\ UNCHANGED notFw

\* The serial port comes and goes (the cable, the Arduino's reset).
PortChange ==
  /\ port_available' = ~port_available
  /\ UNCHANGED <<last_cmd, ser, fw_pc, fw_cmd, polled, sends, arduino,
                 last_frame_jpeg, photos, jpeg_data>>
  /\ UNCHANGED camCtl
  /\ UNCHANGED fw_resp
  /\ UNCHANGED notFw

\* camera_loop: a captured frame replaces last_frame_jpeg under last_frame_lock.
CameraCapture(jpeg) ==
  /\ cam_pc = "capture"
  /\ last_frame_jpeg # jpeg
  /\ last_frame_jpeg' = jpeg
  /\ cam_pc' = "push"
  /\ cam_pushed' = FALSE
  /\ UNCHANGED cam_resp
  /\ UNCHANGED <<last_cmd, ser, port_available, fw_pc, fw_cmd, polled, sends,
                 arduino, photos, jpeg_data>>
  /\ UNCHANGED fw_resp
  /\ UNCHANGED notFw

\* camera_loop after requests.post(UNITY_FRAME_ENDPOINT, ..., timeout=1.0): a
\* status other than 200 and a RequestException are logged, and the loop goes
\* round to capture the next frame; the frame in hand is dropped.
camera_after_resending(outcome) == IF outcome = "ok" THEN "capture" ELSE "push"
camera_after(outcome) == IF outcome = "ok" THEN "capture" ELSE "failed"

\* The push of the frame just captured and encoded.
CameraPush(outcome) ==
  /\ cam_pc = "push"
  /\ cam_pushed' = TRUE
  /\ cam_resp' = outcome
  /\ cam_pc' = camera_after(outcome)
  /\ UNCHANGED <<last_cmd, ser, port_available, fw_pc, fw_cmd, polled, sends,
                 arduino, last_frame_jpeg, photos, jpeg_data>>
  /\ UNCHANGED fw_resp
  /\ UNCHANGED notFw

\* After a failed push: the log line, time.sleep(0.5) after an exception, and
\* the top of the loop.
CameraBackoff ==
  /\ cam_pc = "failed"
  /\ cam_pc' = "capture"
  /\ UNCHANGED <<cam_pushed, cam_resp>>
  /\ UNCHANGED <<last_cmd, ser, port_available, fw_pc, fw_cmd, polled, sends,
                 arduino, last_frame_jpeg, photos, jpeg_data>>
  /\ UNCHANGED fw_resp
  /\ UNCHANGED notFw

\* After main's init_serial: the connection is open, nothing forwarded yet.
ForwardInit ==
  /\ last_cmd = None
  /\ ser = "open"
  /\ port_available = TRUE
  /\ fw_pc = "poll"
  /\ fw_cmd = None
  /\ polled = <<>>
  /\ sends = <<>>
  /\ arduino = <<>>
  /\ last_frame_jpeg = NoFrame
  /\ photos = <<>>
  /\ jpeg_data = NoFrame
  /\ cam_pc = "capture"
  /\ cam_pushed = FALSE
  /\ cam_resp = "none"
  /\ fw_resp = "none"

ForwardNext ==
  \/ \E outcome \in {"ok", "status", "exception"}, raw_text \in PolledBodies :
       CommandPoll(outcome, raw_text)
  \/ CommandPollSleep
  \/ init_serial
  \/ \E ok \in BOOLEAN : SerialWrite(ok)
  \/ \E saved \in BOOLEAN : PhotoSave(saved)
  \/ PortChange
  \/ \E jpeg \in {"jpegA", "jpegB"} : CameraCapture(jpeg)
  \/ \E outcome \in {"ok", "status", "exception"} : CameraPush(outcome)
  \/ CameraBackoff

\* -------------------------------------------- lyric scheduler (agent)

\* A line of the synced lyrics: whether it matches \[(\d+):(\d+\.\d+)\](.*), and
\* then its minutes, its seconds and its text (the tokens of group 3; a text of
\* whitespace alone has none).
LrcLines ==
  { [ok |-> TRUE, mm |-> 0, ss |-> 0, text |-> <<"la">>],
    [ok |-> TRUE, mm |-> 0, ss |-> 2, text |-> <<"di">>],
    [ok |-> TRUE, mm |-> 0, ss |-> 1, text |-> <<>>],
    [ok |-> FALSE, mm |-> 0, ss |-> 0, text |-> <<"oh">>] }

\* The outcomes of an outbound POST: answered 200, or failed (another status, a
\* timeout, a connection error), which the sender only logs.
TransportOutcomes == {"ok", "failed"}

\* parse_lrc_timestamps: the matching lines, in order, as (seconds, text).
parse_lrc_timestamps(synced) ==
  LET matched == SelectSeq(synced, LAMBDA l : l.ok) IN
    [i \in 1..Len(matched) |->
       [ts |-> matched[i].mm * 60 + matched[i].ss, text |-> matched[i].text]]

\* send_transcript_to_server: one POST of body, whose failure is logged only.
send_transcript_to_server(body, outcome) ==
  transcript_calls' = Append(transcript_calls, [body |-> body, at |-> now,
                                                outcome |-> outcome])

\* while (time.time() - start_time) < timestamp: sleep -- the exit condition.
line_due_early(elapsed, timestamp) == elapsed + 1 >= timestamp
line_due(elapsed, timestamp) == elapsed >= timestamp

\* for timestamp, text in lines: the index after a publish call.
next_line_retry(i, outcome) == IF outcome = "ok" THEN i + 1 ELSE i
next_line(i, outcome) == i + 1

\* handle_music_spotify_flow from the parsing of the lyrics: without a parsed
\* line the flow reports it and returns.
MusicParse(outcome) ==
  /\ sch_pc = "parse"
  /\ lines' = parse_lrc_timestamps(synced_lyrics)
  /\ IF lines' = <<>>
     THEN /\ send_transcript_to_server(<<"5", "Could", "not", "parse">>, outcome)
          /\ sch_pc' = "done"
          /\ flow' = "unparsed"
     ELSE /\ sch_pc' = "anchor"
          /\ outcome = "ok"
          /\ UNCHANGED <<transcript_calls, flow>>
  /\ UNCHANGED <<now, synced_lyrics, start_time, idx>>
  /\ UNCHANGED played_at
  /\ UNCHANGED notSch

\* start_time = time.time()
MusicAnchor ==
  /\ sch_pc = "anchor"
  /\ start_time' = now
  /\ sch_pc' = "play"
  /\ UNCHANGED <<now, synced_lyrics, lines, idx, transcript_calls, flow>>
  /\ UNCHANGED played_at
  /\ UNCHANGED notSch

\* spotify.play_song: it raises (the flow reports it and returns), or returns,
\* having started the playback ("started") or only printed why not ("not_started").
MusicPlay(result, outcome) ==
  /\ sch_pc = "play"
  /\ IF result = "raised"
     THEN /\ send_transcript_to_server(<<"5", "Error", "starting", "Spotify",
                                         "playback">>, outcome)
          /\ sch_pc' = "done"
          /\ flow' = "playback_failed"
          /\ UNCHANGED idx
     ELSE /\ outcome = "ok"
          /\ sch_pc' = "wait"
          /\ idx' = 1
          /\ flow' = result
          /\ UNCHANGED transcript_calls
  /\ played_at' = now
  /\ UNCHANGED <<now, synced_lyrics, lines, start_time>>
  /\ UNCHANGED notSch

\* The wait loop of line idx ends once the line is due.
LyricWait ==
  /\ sch_pc = "wait"
  /\ line_due(now - start_time, lines[idx].ts)
  /\ sch_pc' = "send"
  /\ UNCHANGED <<now, synced_lyrics, lines, start_time, idx, transcript_calls, flow>>
  /\ UNCHANGED played_at
  /\ UNCHANGED notSch

\* The publish call of line idx, and the loop's advance.
LyricSend(outcome) ==
  /\ sch_pc = "send"
  /\ send_transcript_to_server(<<"10">> \o lines[idx].text, outcome)
  /\ idx' = next_line(idx, outcome)
  /\ sch_pc' = IF idx' > Len(lines) THEN "done" ELSE "wait"
  /\ UNCHANGED <<now, synced_lyrics, lines, start_time, flow>>
  /\ UNCHANGED played_at
  /\ UNCHANGED notSch

\* The flow is entered with synced lyrics that are not empty (line 171).
SchedInit ==
  /\ sch_pc = "parse"
  /\ synced_lyrics \in UNION {[1..n -> LrcLines] : n \in 1..MaxLines}
  /\ lines = <<>>
  /\ start_time = 0
  /\ idx = 0
  /\ transcript_calls = <<>>
  /\ flow = "idle"
  /\ played_at = 0

SchedNext ==
  \/ \E outcome \in TransportOutcomes : MusicParse(outcome)
  \/ MusicAnchor
  \/ \E result \in {"started", "not_started", "raised"},
        outcome \in TransportOutcomes : MusicPlay(result, outcome)
  \/ LyricWait
  \/ \E outcome \in TransportOutcomes : LyricSend(outcome)
  \/ Tick

\* ------------------------------------- the agent's audio loop (src/rpi.py)

\* No answer of /send-audio or /audio is on its way to a client.
NoAudioAnswer ==
  [req |-> "none", status |-> 0, by |-> 0, saw |-> 0, readable |-> FALSE]

\* audio_poll_loop, the two tests on the response: `status_code == 204 or not
\* resp.content` and `status_code != 200` both go back to sleep.
agent_takes_any_body(status, has_content) == has_content
agent_takes(status, has_content) == status = 200 /\ has_content

\* resp.content: the file on a 200, nothing on a 204, the JSON error otherwise.
has_content(status) == status # 204

\* requests.get(AUDIO_ENDPOINT, timeout=5) leaves the loop: the request is with
\* the hub, and no earlier answer is still on its way.
AgentAudioGet ==
  /\ ap_pc = "sleep"
  /\ aud_out.req # "poll"
  /\ ap_pc' = "get"
  /\ aud_out' = NoAudioAnswer
  /\ UNCHANGED <<pending_audio_ready, audio_file, aud_pc, aud_saw, nTrig, nPass,
                 nContent, trigSincePoll>>
  /\ UNCHANGED <<ap_resp, ap_abandoned, audio_saved, pipeline_runs, nLost>>
  /\ UNCHANGED plVars
  /\ UNCHANGED notAp

\* The call gives up after its 5 seconds before the hub has answered: `except
\* requests.RequestException`.  The request stays with the hub, which serves it
\* for a client that is gone.
AgentAudioTimeout ==
  /\ ap_pc = "get"
  /\ aud_out.req # "poll"
  /\ ap_abandoned < MaxAbandoned
  /\ ap_pc' = "sleep"
  /\ ap_resp' = "lost"
  /\ ap_abandoned' = ap_abandoned + 1
  /\ UNCHANGED <<audio_saved, pipeline_runs, nLost>>
  /\ UNCHANGED audVars
  /\ UNCHANGED plVars
  /\ UNCHANGED notAp

\* The hub's answer to a request the loop gave up on: nobody reads it.
AbandonedAnswer ==
  /\ ap_abandoned > 0
  /\ aud_out.req = "poll"
  /\ ap_abandoned' = ap_abandoned - 1
  /\ nLost' = IF aud_out.status = 200 THEN nLost + 1 ELSE nLost
  /\ aud_out' = NoAudioAnswer
  /\ UNCHANGED <<pending_audio_ready, audio_file, aud_pc, aud_saw, nTrig, nPass,
                 nContent, trigSincePoll>>
  /\ UNCHANGED <<ap_pc, ap_resp, audio_saved, pipeline_runs>>
  /\ UNCHANGED plVars
  /\ UNCHANGED notAp

\* The answer of the hub reaches the loop (delivered), or the call raises a
\* timeout or a transport error and the answer is lost: `except
\* requests.RequestException`.  Only a 200 with a body goes on to the save.
AgentAudioResponse(delivered) ==
  /\ ap_pc = "get"
  /\ aud_out.req = "poll"
  /\ LET taken == delivered /\ agent_takes(aud_out.status, has_content(aud_out.status)) IN
       /\ ap_pc' = IF taken THEN "save" ELSE "sleep"
       /\ ap_resp' = IF ~delivered THEN "lost"
                     ELSE IF taken THEN "content"
                     ELSE IF aud_out.status = 204 THEN "empty" ELSE "status"
       /\ nLost' = IF ~delivered /\ aud_out.status = 200 THEN nLost + 1 ELSE nLost
  /\ aud_out' = NoAudioAnswer
  /\ UNCHANGED <<pending_audio_ready, audio_file, aud_pc, aud_saw, nTrig, nPass,
                 nContent, trigSincePoll>>
  /\ pl_failed' = "none"
  /\ UNCHANGED <<ap_abandoned, audio_saved, pipeline_runs, pl_pc>>
  /\ UNCHANGED notAp

\* open(audio_path, "wb") and f.write(resp.content) under a name taken from the
\* clock; an OSError is caught by `except Exception` and nothing is processed.
AgentAudioSave(written) ==
  /\ ap_pc = "save"
  /\ audio_saved' = IF written THEN Append(audio_saved, Len(audio_saved) + 1)
                    ELSE audio_saved
  /\ ap_pc' = IF written THEN "process" ELSE "sleep"
  /\ UNCHANGED <<ap_resp, ap_abandoned, pipeline_runs, nLost>>
  /\ UNCHANGED audVars
  /\ UNCHANGED plVars
  /\ UNCHANGED notAp

\* audio_poll_loop after process_audio_file: it has returned, or what it raised
\* is caught by `except Exception`; either way the loop sleeps.
loop_after_uncaught(pl) == IF pl = "raised" THEN "dead" ELSE "sleep"
loop_after(pl) == "sleep"

\* process_audio_file(audio_path) on the file just saved, to its end; the steps
\* inside it are PipelineBegin and what follows.
AgentAudioProcess ==
  /\ ap_pc = "process"
  /\ pl_pc \in {"off", "returned", "raised"}
  /\ pipeline_runs' = Append(pipeline_runs, audio_saved[Len(audio_saved)])
  /\ ap_pc' = loop_after(pl_pc)
  /\ pl_pc' = "off"
  /\ UNCHANGED <<ap_resp, ap_abandoned, audio_saved, nLost, pl_failed>>
  /\ UNCHANGED audVars
  /\ UNCHANGED notAp

AgentAudioInit ==
  /\ ap_pc = "sleep"
  /\ ap_resp = "none"
  /\ ap_abandoned = 0
  /\ audio_saved = <<>>
  /\ pipeline_runs = <<>>
  /\ nLost = 0
  /\ pl_pc = "off"
  /\ pl_failed = "none"

\* The hub's audio handlers with the agent's loop as the only client of GET
\* /audio: the hub serves a request the loop has sent, the one it waits on or
\* one it gave up on, and the answer is handed over before the next is served.
\* The triggers come one after the other.
AgentAudioNext ==
  \/ AudioFileRemoved
  \/ AudioFileCreated
  \/ /\ aud_out.req # "poll"
     /\ \A g \in Handlers : aud_pc[g] # "set"
     /\ \E h \in Handlers : SendAudioCheck(h)
  \/ /\ aud_out.req # "poll"
     /\ \E h \in Handlers : SendAudioSet(h)
  \/ /\ ap_pc = "get" \/ ap_abandoned > 0
     /\ aud_out.req # "poll"
     /\ \A g \in Handlers : aud_pc[g] # "send"
     /\ \E h \in Handlers : AudioTestAndClear(h)
  \/ \E h \in Handlers : AudioSendFile(h)
  \/ AgentAudioGet
  \/ AgentAudioTimeout
  \/ AbandonedAnswer
  \/ \E delivered \in BOOLEAN : AgentAudioResponse(delivered)
  \/ \E written \in BOOLEAN : AgentAudioSave(written)
  \/ AgentAudioProcess


\* ---------------------------------------------- locks (hub and agent)

\* threading.Lock(): the four locks of the hub and the one of the agent.
Locks ==
  {"frame_lock", "command_lock", "pending_audio_lock", "transcript_lock",
   "last_frame_lock"}

\* The threads that take them: the hub's request handlers, and on the agent
\* the command loop and the capture loop.
CommandThread == NumHandlers + 1
CameraThread == NumHandlers + 2
LockThreads == Handlers \cup {CommandThread, CameraThread}
Free == 0

\* The steps of an operation as far as locks go: the entry of a `with` block,
\* its exit (the cell is read or assigned in between), and network or disk I/O.
Acquire(l) == [kind |-> "acquire", lock |-> l]
Release(l) == [kind |-> "release", lock |-> l]
IO == [kind |-> "io", lock |-> "none"]
WithLock(l) == <<Acquire(l), Release(l)>>

\* audio(): the flag is tested and cleared under pending_audio_lock, and
\* send_file runs after the `with` block.
audio_sending_under_lock ==
  <<Acquire("pending_audio_lock"), IO, Release("pending_audio_lock")>>
audio_steps == WithLock("pending_audio_lock") \o <<IO>>

\* The operations of the hub: the `with` block and the response sent after
\* it; send_audio looks for the file on disk before its block.
HubOperations ==
  [ set_current_command_from_key |-> WithLock("command_lock") \o <<IO>>,
    command_endpoint |-> WithLock("command_lock") \o <<IO>>,
    receive_frame |-> WithLock("frame_lock") \o <<IO>>,
    latest_jpg |-> WithLock("frame_lock") \o <<IO>>,
    send_audio |-> <<IO>> \o WithLock("pending_audio_lock") \o <<IO>>,
    audio |-> audio_steps,
    receive_transcript |-> WithLock("transcript_lock") \o <<IO>>,
    latest_transcript |-> WithLock("transcript_lock") \o <<IO>> ]

\* command_poll_loop on PHOTO: the GET, the read of last_frame_jpeg under
\* last_frame_lock, and the write of the file after the `with` block.
photo_steps == <<IO>> \o WithLock("last_frame_lock") \o <<IO>>

\* camera_loop: the store of the frame under last_frame_lock, and the POST.
capture_steps == WithLock("last_frame_lock") \o <<IO>>

\* What a thread may run, and the steps of what it runs.
OperationsOf(t) ==
  IF t = CommandThread THEN {"photo"}
  ELSE IF t = CameraThread THEN {"capture"}
  ELSE DOMAIN HubOperations
StepsOf(op) ==
  IF op = "photo" THEN photo_steps
  ELSE IF op = "capture" THEN capture_steps
  ELSE HubOperations[op]

Held(t) == {l \in Locks : lk_holder[l] = t}
NextStep(t) == StepsOf(lk_op[t])[lk_pos[t]]
Running(t) == lk_op[t] # "idle"
\* A thread is stopped only at the entry of a `with` block whose lock is taken.
CanStep(t) ==
  Running(t) /\ (NextStep(t).kind = "acquire" => lk_holder[NextStep(t).lock] = Free)

\* A request arrives, or a loop starts its next iteration.
LockBegin(t, op) ==
  /\ ~Running(t)
  /\ lk_op' = [lk_op EXCEPT ![t] = op]
  /\ lk_pos' = [lk_pos EXCEPT ![t] = 1]
  /\ UNCHANGED lk_holder
  /\ UNCHANGED notLk

\* The thread takes its next step; Lock.acquire waits while the lock is taken,
\* by whichever thread.
LockStep(t) ==
  /\ CanStep(t)
  /\ LET step == NextStep(t) IN
       lk_holder' = CASE step.kind = "acquire" -> [lk_holder EXCEPT ![step.lock] = t]
                      [] step.kind = "release" -> [lk_holder EXCEPT ![step.lock] = Free]
                      [] OTHER -> lk_holder
  /\ IF lk_pos[t] = Len(StepsOf(lk_op[t]))
     THEN /\ lk_op' = [lk_op EXCEPT ![t] = "idle"]
          /\ lk_pos' = [lk_pos EXCEPT ![t] = 0]
     ELSE /\ lk_pos' = [lk_pos EXCEPT ![t] = lk_pos[t] + 1]
          /\ UNCHANGED lk_op
  /\ UNCHANGED notLk

LockInit ==
  /\ lk_holder = [l \in Locks |-> Free]
  /\ lk_op = [t \in LockThreads |-> "idle"]
  /\ lk_pos = [t \in LockThreads |-> 0]

LockNext ==
  \/ \E t \in LockThreads : \E op \in OperationsOf(t) : LockBegin(t, op)
  \/ \E t \in LockThreads : LockStep(t)


\* ------------------------------------------------- shutdown (agent)

\* A thread of the agent once main has returned: the three loops are daemon
\* threads, which end with the process wherever they are; a thread that is not
\* a daemon would run on.
thread_outliving_main(pc) == pc
thread_after_exit(pc) == "killed"

\* KeyboardInterrupt reaches main in its `while True: time.sleep(1.0)`; main
\* prints and returns, and the process ends.  The except KeyboardInterrupt of
\* the lyric loop is in the audio thread, where the signal is never raised.  A
\* POST the audio thread was in reached the hub whole (delivered: the request is
\* one send of headers and body) or not at all.
MainShutdown(delivered) ==
  /\ started
  /\ sch_pc # "killed"
  /\ started' = FALSE
  /\ sch_pc' = thread_after_exit(sch_pc)
  /\ IF delivered
     THEN /\ sch_pc = "send"
          /\ send_transcript_to_server(<<"10">> \o lines[idx].text, "cut")
     ELSE UNCHANGED transcript_calls
  /\ UNCHANGED <<now, synced_lyrics, lines, start_time, idx, flow, played_at>>
  /\ UNCHANGED <<cmdVars, audVars, trVars, frVars, fwVars, apVars, lkVars, scope>>

\* The music flow from the parsing on, and the shutdown of the agent.
ShutdownNext ==
  \/ SchedNext
  \/ \E delivered \in BOOLEAN : MainShutdown(delivered)

\* --------------------------------- parse_lrc_timestamps, on characters

\* A text is the sequence of its characters.
Digits == {"0", "1", "2", "3", "4", "5", "6", "7", "8", "9"}
Whitespace == {" ", "\t", "\r", "\n"}

\* The value of a digit.
DigitValue(c) ==
  LET order == <<"0", "1", "2", "3", "4", "5", "6", "7", "8", "9">> IN
    (CHOOSE n \in 1..10 : order[n] = c) - 1

\* Timestamps are kept in hundredths of a second: float(ss.cc) of a fraction
\* of one or two digits is exact in them.
Hundredths == 100

\* int(group): the decimal value of a run of digits.
RECURSIVE int(_)
int(digits) ==
  IF digits = <<>> THEN 0
  ELSE int(SubSeq(digits, 1, Len(digits) - 1)) * 10 + DigitValue(digits[Len(digits)])

\* 10 ** n
RECURSIVE Pow10(_)
Pow10(n) == IF n = 0 THEN 1 ELSE 10 * Pow10(n - 1)

\* float(group): whole and frac are the digits on either side of the point.
float(whole, frac) ==
  int(whole) * Hundredths + (int(frac) * Hundredths) \div Pow10(Len(frac))

\* str.split('\n'): the pieces between the newlines, empty ones included.
RECURSIVE split_from(_, _, _, _)
split_from(text, i, piece, pieces) ==
  IF i > Len(text) THEN Append(pieces, piece)
  ELSE IF text[i] = "\n" THEN split_from(text, i + 1, <<>>, Append(pieces, piece))
  ELSE split_from(text, i + 1, Append(piece, text[i]), pieces)

split(text) == split_from(text, 1, <<>>, <<>>)

\* \d+ from position i: the position after the longest run of digits.
RECURSIVE digits_end(_, _)
digits_end(line, i) ==
  IF i <= Len(line) /\ line[i] \in Digits THEN digits_end(line, i + 1) ELSE i

\* str.strip(): the text without the whitespace at its two ends.
RECURSIVE lstrip(_)
lstrip(text) ==
  IF text # <<>> /\ Head(text) \in Whitespace THEN lstrip(Tail(text)) ELSE text

RECURSIVE rstrip(_)
rstrip(text) ==
  IF text # <<>> /\ text[Len(text)] \in Whitespace
  THEN rstrip(SubSeq(text, 1, Len(text) - 1)) ELSE text

strip_right_only(text) == rstrip(text)
strip(text) == lstrip(rstrip(text))

\* re.match(r'\[(\d+):(\d+\.\d+)\](.*)', line): from the first character, each
\* \d+ takes its longest run (the character that follows one is no digit, so a
\* shorter run never matches), and (.*) takes the rest of the line.
re_match(line) ==
  LET colon == digits_end(line, 2)
      point == digits_end(line, colon + 1)
      close == digits_end(line, point + 1)
      found == /\ Len(line) >= 1 /\ line[1] = "["
               /\ colon > 2 /\ colon <= Len(line) /\ line[colon] = ":"
               /\ point > colon + 1 /\ point <= Len(line) /\ line[point] = "."
               /\ close > point + 1 /\ close <= Len(line) /\ line[close] = "]"
  IN IF found
     THEN [found |-> TRUE,
           minutes |-> SubSeq(line, 2, colon - 1),
           whole |-> SubSeq(line, colon + 1, point - 1),
           frac |-> SubSeq(line, point + 1, close - 1),
           rest |-> SubSeq(line, close + 1, Len(line))]
     ELSE [found |-> FALSE]

\* for line in synced_lyrics.split('\n'): a match appends
\* (minutes * 60 + seconds, text.strip()), anything else is passed over.
RECURSIVE parse_loop(_, _, _)
parse_loop(pieces, i, parsed) ==
  IF i > Len(pieces) THEN parsed
  ELSE LET m == re_match(pieces[i]) IN
         IF m.found
         THEN parse_loop(pieces, i + 1,
                Append(parsed,
                  [ts |-> int(m.minutes) * 60 * Hundredths + float(m.whole, m.frac),
                   text |-> strip(m.rest)]))
         ELSE parse_loop(pieces, i + 1, parsed)

\* parse_lrc_timestamps on the characters of its argument: `if not
\* synced_lyrics: return []`, then the loop over the pieces.
parse_lrc_text(text) ==
  IF text = <<>> THEN <<>> ELSE parse_loop(split(text), 1, <<>>)

\* Lines a provider may send: well-formed ones (padded text, no text, a
\* one-digit fraction, a minute), and ones that fail the pattern (no fraction,
\* a leading blank, no timestamp, an empty line, no minutes, no closing
\* bracket).
LrcRawLines ==
  { <<"[", "0", ":", "1", ".", "5", "0", "]", "l", "a">>,
    <<"[", "1", ":", "0", "2", ".", "5", "]", " ", "d", "i", " ">>,
    <<"[", "0", ":", "2", ".", "0", "0", "]">>,
    <<"[", "0", ":", "1", "]", "l", "a">>,
    <<" ", "[", "0", ":", "1", ".", "5", "0", "]", "l", "a">>,
    <<"l", "a", " ", "l", "a">>,
    <<>>,
    <<"[", ":", "1", ".", "5", "0", "]", "l", "a">>,
    <<"[", "0", ":", "1", ".", "5", "0", "l", "a">> }

\* '\n'.join(pieces)
RECURSIVE join(_)
join(pieces) ==
  IF pieces = <<>> THEN <<>>
  ELSE IF Len(pieces) = 1 THEN pieces[1]
  ELSE pieces[1] \o <<"\n">> \o join(Tail(pieces))

\* The texts handed to the parser: up to MaxLines lines, joined by newlines.
LrcTexts ==
  {<<>>} \cup { join(pieces) : pieces \in UNION {[1..n -> LrcRawLines] : n \in 1..MaxLines} }

\* The parser is handed a text.
ParseInit ==
  /\ sch_pc = "parse"
  /\ synced_lyrics \in LrcTexts
  /\ lines = <<>>
  /\ start_time = 0
  /\ idx = 0
  /\ transcript_calls = <<>>
  /\ flow = "idle"
  /\ played_at = 0

\* lines = lyrics.parse_lrc_timestamps(...)
ParseText ==
  /\ sch_pc = "parse"
  /\ lines' = parse_lrc_text(synced_lyrics)
  /\ sch_pc' = "done"
  /\ UNCHANGED <<now, synced_lyrics, start_time, idx, transcript_calls, flow, played_at>>
  /\ UNCHANGED notSch

ParseNext == ParseText

\* ------------------------------- process_audio_file (agent, audio loop)

\* The synced lyrics a search returns: a line due after a second, or text that
\* is no LRC.
PipelineLyrics ==
  { << [ok |-> TRUE, mm |-> 0, ss |-> 1, text |-> <<"la">>] >>,
    << [ok |-> FALSE, mm |-> 0, ss |-> 0, text |-> <<"oh">>] >> }

\* The steps the pipeline and the flows take on their own variables only.
PipelineOnly ==
  /\ UNCHANGED <<ap_pc, ap_resp, ap_abandoned, audio_saved, pipeline_runs, nLost>>
  /\ UNCHANGED audVars
  /\ UNCHANGED notAp

\* process_audio_file is entered from the loop, in the loop's thread; the log
\* of what it sends to the hub starts empty.  get_openai_client() is outside
\* every try block of the function: what it raises leaves the function.
PipelineBegin(result) ==
  /\ ap_pc = "process"
  /\ pl_pc = "off"
  /\ pl_pc' = IF result = "raised" THEN "raised" ELSE "transcribe"
  /\ pl_failed' = IF result = "raised" THEN "client" ELSE "none"
  /\ transcript_calls' = <<>>
  /\ UNCHANGED <<now, sch_pc, synced_lyrics, lines, start_time, idx, flow, played_at>>
  /\ UNCHANGED <<ap_pc, ap_resp, ap_abandoned, audio_saved, pipeline_runs, nLost>>
  /\ UNCHANGED <<cmdVars, audVars, trVars, frVars, fwVars, lkVars, scope, started>>

\* chatgpt.transcribe_audio: it raises (logged, return), returns no text
\* (return), or a text that names music, spotify or song, or another text.
PipelineTranscribe(result) ==
  /\ pl_pc = "transcribe"
  /\ pl_pc' = CASE result = "music" -> "song"
                [] result = "other" -> "chat"
                [] OTHER -> "returned"
  /\ pl_failed' = IF result = "raised" THEN "transcription" ELSE pl_failed
  /\ PipelineOnly

\* handle_music_spotify_flow, the song name: chat_with_gpt raises or returns
\* nothing (reported, return), or names the song.
MusicSong(result, outcome) ==
  /\ pl_pc = "song"
  /\ sch_pc = "off"
  /\ IF result = "ok"
     THEN /\ outcome = "ok"
          /\ pl_pc' = "lyrics"
          /\ UNCHANGED <<transcript_calls, pl_failed>>
     ELSE /\ send_transcript_to_server(
               IF result = "raised"
               THEN <<"5", "Error", "parsing", "music", "command">>
               ELSE <<"5", "No", "Song", "Name", "found">>, outcome)
          /\ pl_pc' = "returned"
          /\ pl_failed' = IF result = "raised" THEN "completion" ELSE pl_failed
  /\ UNCHANGED <<now, sch_pc, synced_lyrics, lines, start_time, idx, flow, played_at>>
  /\ UNCHANGED <<ap_pc, ap_resp, ap_abandoned, audio_saved, pipeline_runs, nLost>>
  /\ UNCHANGED <<cmdVars, audVars, trVars, frVars, fwVars, lkVars, scope, started>>

\* handle_music_spotify_flow, lyrics.search_lyrics: it raises or finds no synced
\* lyrics (reported, return), or the flow goes on to parse what it found.
MusicLyrics(result, synced, outcome) ==
  /\ pl_pc = "lyrics"
  /\ sch_pc = "off"
  /\ IF result = "found"
     THEN /\ outcome = "ok"
          /\ pl_pc' = "music"
          /\ sch_pc' = "parse"
          /\ synced_lyrics' = synced
          /\ transcript_calls' = <<>>
          /\ UNCHANGED pl_failed
     ELSE /\ send_transcript_to_server(
               <<"5", "No", "synced", "lyrics", "available">>, outcome)
          /\ pl_pc' = "returned"
          /\ pl_failed' = IF result = "raised" THEN "lyric_lookup" ELSE pl_failed
          /\ UNCHANGED <<sch_pc, synced_lyrics>>
  /\ UNCHANGED <<now, lines, start_time, idx, flow, played_at>>
  /\ UNCHANGED <<ap_pc, ap_resp, ap_abandoned, audio_saved, pipeline_runs, nLost>>
  /\ UNCHANGED <<cmdVars, audVars, trVars, frVars, fwVars, lkVars, scope, started>>

\* handle_music_spotify_flow returns: after its last line, or after one of the
\* reports of MusicParse and MusicPlay.
MusicReturn ==
  /\ pl_pc = "music"
  /\ sch_pc = "done"
  /\ pl_pc' = "returned"
  /\ pl_failed' = IF flow = "playback_failed" THEN "playback" ELSE pl_failed
  /\ sch_pc' = "off"
  /\ synced_lyrics' = <<>>
  /\ lines' = <<>>
  /\ start_time' = 0
  /\ idx' = 0
  /\ transcript_calls' = <<>>
  /\ flow' = "idle"
  /\ played_at' = 0
  /\ UNCHANGED now
  /\ UNCHANGED <<ap_pc, ap_resp, ap_abandoned, audio_saved, pipeline_runs, nLost>>
  /\ UNCHANGED <<cmdVars, audVars, trVars, frVars, fwVars, lkVars, scope, started>>

\* handle_chatgpt_tts_flow, chat_with_gpt: when it raises the flow returns, and
\* process_audio_file goes on to its trailing report.
ChatCompletion(result) ==
  /\ pl_pc = "chat"
  /\ pl_pc' = IF result = "raised" THEN "report" ELSE "tts"
  /\ pl_failed' = IF result = "raised" THEN "completion" ELSE pl_failed
  /\ PipelineOnly

\* Where handle_chatgpt_tts_flow goes after its second try block: to the reply,
\* unless audio_duration was left unbound.
after_speech_duration_bound(result) == "reply"
after_speech(result) == IF result = "speech_raised" THEN "raised" ELSE "reply"

\* handle_chatgpt_tts_flow, the second try block: an exception is logged and
\* the flow goes on to str(audio_duration), a name that is unbound when
\* text_to_speech or get_audio_duration raised: the flow raises.
ChatSpeech(result) ==
  /\ pl_pc = "tts"
  /\ pl_pc' = after_speech(result)
  /\ pl_failed' = CASE result = "speech_raised" -> "text_to_speech"
                    [] result = "play_raised" -> "playback"
                    [] OTHER -> pl_failed
  /\ PipelineOnly

\* handle_chatgpt_tts_flow, the reply sent to the hub.
ChatReply(outcome) ==
  /\ pl_pc = "reply"
  /\ sch_pc = "off"
  /\ send_transcript_to_server(<<"3", "response">>, outcome)
  /\ pl_pc' = "report"
  /\ UNCHANGED pl_failed
  /\ UNCHANGED <<now, sch_pc, synced_lyrics, lines, start_time, idx, flow, played_at>>
  /\ UNCHANGED <<ap_pc, ap_resp, ap_abandoned, audio_saved, pipeline_runs, nLost>>
  /\ UNCHANGED <<cmdVars, audVars, trVars, frVars, fwVars, lkVars, scope, started>>

\* process_audio_file after the generic flow: send_transcript_to_server with
\* song_name, a name this function never binds: NameError.
PipelineReport ==
  /\ pl_pc = "report"
  /\ pl_pc' = "raised"
  /\ pl_failed' = IF pl_failed = "none" THEN "report" ELSE pl_failed
  /\ PipelineOnly

\* The audio loop with the pipeline inside it and the hub it polls; the clock
\* matters while a line waits for its time.
PipelineNext ==
  \/ /\ aud_out.req # "poll"
     /\ \A g \in Handlers : aud_pc[g] # "set"
     /\ \E h \in Handlers : SendAudioCheck(h)
  \/ /\ aud_out.req # "poll"
     /\ \E h \in Handlers : SendAudioSet(h)
  \/ /\ ap_pc = "get"
     /\ aud_out.req # "poll"
     /\ \A g \in Handlers : aud_pc[g] # "send"
     /\ \E h \in Handlers : AudioTestAndClear(h)
  \/ \E h \in Handlers : AudioSendFile(h)
  \/ AgentAudioGet
  \/ \E delivered \in BOOLEAN : AgentAudioResponse(delivered)
  \/ \E written \in BOOLEAN : AgentAudioSave(written)
  \/ \E result \in {"raised", "ok"} : PipelineBegin(result)
  \/ \E result \in {"raised", "empty", "music", "other"} : PipelineTranscribe(result)
  \/ \E result \in {"raised", "empty", "ok"}, outcome \in TransportOutcomes :
       MusicSong(result, outcome)
  \/ \E result \in {"raised", "none", "found"}, synced \in PipelineLyrics,
        outcome \in TransportOutcomes : MusicLyrics(result, synced, outcome)
  \/ \E outcome \in TransportOutcomes : MusicParse(outcome)
  \/ MusicAnchor
  \/ \E result \in {"started", "not_started", "raised"},
        outcome \in TransportOutcomes : MusicPlay(result, outcome)
  \/ LyricWait
  \/ \E outcome \in TransportOutcomes : LyricSend(outcome)
  \/ sch_pc = "wait" /\ Tick
  \/ MusicReturn
  \/ \E result \in {"raised", "ok"} : ChatCompletion(result)
  \/ \E result \in {"speech_raised", "play_raised", "ok"} : ChatSpeech(result)
  \/ \E outcome \in TransportOutcomes : ChatReply(outcome)
  \/ PipelineReport
  \/ pl_pc # "off" /\ AgentAudioProcess

\* The audio loop's thread takes its next step when it has one: a call that
\* failed has returned or raised, the sleep ends, the GET leaves.
PipelineFairness ==
  /\ WF_vars(PipelineReport)
  /\ WF_vars(\E outcome \in TransportOutcomes : ChatReply(outcome))
  /\ WF_vars(MusicReturn)
  /\ WF_vars(pl_pc # "off" /\ AgentAudioProcess)
  /\ WF_vars(AgentAudioGet)


\* ------------------------------------------------------ specifications

\* No music flow under way.
SchedOff ==
  /\ sch_pc = "off"
  /\ synced_lyrics = <<>>
  /\ lines = <<>>
  /\ start_time = 0
  /\ idx = 0
  /\ transcript_calls = <<>>
  /\ flow = "idle"
  /\ played_at = 0

\* The hub and the agent once started.
Init ==
  /\ now = 0
  /\ CommandInit
  /\ AudioInit
  /\ TranscriptInit
  /\ FrameInit
  /\ ForwardInit
  /\ SchedOff
  /\ AgentAudioInit
  /\ LockInit
  /\ scope = "all"
  /\ started = TRUE

\* The agent as the music flow reaches the parsing of the lyrics it fetched.
InitLyrics ==
  /\ now = 0
  /\ CommandInit
  /\ AudioInit
  /\ TranscriptInit
  /\ FrameInit
  /\ ForwardInit
  /\ SchedInit
  /\ AgentAudioInit
  /\ LockInit
  /\ scope = "all"
  /\ started = TRUE

\* The agent as the parser is handed the text of the synced lyrics.
InitParse ==
  /\ now = 0
  /\ CommandInit
  /\ AudioInit
  /\ TranscriptInit
  /\ FrameInit
  /\ ForwardInit
  /\ ParseInit
  /\ AgentAudioInit
  /\ LockInit
  /\ scope = "all"
  /\ started = TRUE

SpecFrame == Init /\ [][FrameNext]_vars
SpecParse == InitParse /\ [][ParseNext]_vars
SpecShutdown == InitLyrics /\ [][ShutdownNext]_vars
SpecForward == Init /\ [][ForwardNext]_vars
SpecLyrics == InitLyrics /\ [][SchedNext]_vars
SpecCommand == Init /\ [][CommandNext]_vars
SpecAudio == Init /\ [][AudioNext]_vars
SpecTranscript == Init /\ [][TranscriptNext]_vars
SpecAgentAudio == Init /\ [][AgentAudioNext]_vars
SpecLocks == Init /\ [][LockNext]_vars
SpecPipeline == Init /\ [][PipelineNext]_vars /\ PipelineFairness

\* The agent's loops, each a thread of its own (threading.Thread in main), taken
\* one group at a time: the command loop with the capture loop whose frame it
\* snapshots, or the audio loop with the hub it polls.
InitLoops ==
  /\ now = 0
  /\ CommandInit
  /\ AudioInit
  /\ TranscriptInit
  /\ FrameInit
  /\ ForwardInit
  /\ SchedOff
  /\ AgentAudioInit
  /\ LockInit
  /\ scope \in {"forwarding", "audio"}
  /\ started = TRUE

\* What the hub answers the command loop while the loops are observed.
LoopBodies == {"FORWARD", "PHOTO"}

LoopsForwardOver(bodies) ==
  \/ \E outcome \in {"ok", "status", "exception"}, raw_text \in bodies :
       CommandPoll(outcome, raw_text)
  \/ CommandPollSleep
  \/ init_serial
  \/ \E ok \in BOOLEAN : SerialWrite(ok)
  \/ \E saved \in BOOLEAN : PhotoSave(saved)
  \/ PortChange
  \/ \E jpeg \in {"jpegA", "jpegB"} : CameraCapture(jpeg)
  \/ \E outcome \in {"ok", "status", "exception"} : CameraPush(outcome)
  \/ CameraBackoff

\* The command loop polling PHOTO and the capture loop, under the clock that
\* names the snapshots: polls are 0.1 s apart and a name holds the second, so
\* any number of steps may fall between two advances of the clock.
ArtifactsNext ==
  \/ Tick
  \/ \E outcome \in {"ok", "status", "exception"} : CommandPoll(outcome, "PHOTO")
  \/ CommandPollSleep
  \/ \E saved \in BOOLEAN : PhotoSave(saved)
  \/ \E jpeg \in {"jpegA", "jpegB"} : CameraCapture(jpeg)
  \/ \E outcome \in {"ok", "status", "exception"} : CameraPush(outcome)
  \/ CameraBackoff

SpecArtifacts == Init /\ [][ArtifactsNext]_vars

LoopsNext ==
  \/ scope = "forwarding" /\ LoopsForwardOver(LoopBodies)
  \/ scope = "audio" /\ AgentAudioNext

\* A thread that can take its next step takes it: the sleeps end, the camera
\* delivers a frame, the hub the loop polls answers or the call times out.
LoopsFairness ==
  /\ WF_vars(scope = "forwarding" /\ CommandPollSleep)
  /\ WF_vars(scope = "forwarding" /\ CameraBackoff)
  /\ WF_vars(scope = "forwarding" /\ \E jpeg \in {"jpegA", "jpegB"} : CameraCapture(jpeg))
  /\ WF_vars(scope = "audio" /\ AgentAudioGet)
  /\ WF_vars(scope = "audio" /\ AbandonedAnswer)

SpecLoops == InitLoops /\ [][LoopsNext]_vars /\ LoopsFairness

\* main: init_serial() first, in the main thread, then the three threads.  A
\* port that is away keeps init_serial in its retry loop.
MainInitSerial ==
  /\ ~started
  /\ ser = None
  /\ port_available
  /\ ser' = "open"
  /\ UNCHANGED <<last_cmd, port_available, fw_pc, fw_cmd, polled, sends, arduino,
                 last_frame_jpeg, photos, jpeg_data>>
  /\ UNCHANGED camCtl
  /\ UNCHANGED fw_resp
  /\ UNCHANGED notFw

\* main after init_serial has returned: camera_thread, command_thread and
\* audio_thread are started.
MainStartThreads ==
  /\ ~started
  /\ ser # None
  /\ started' = TRUE
  /\ UNCHANGED <<now, cmdVars, audVars, trVars, frVars, fwVars, schVars, apVars,
                 lkVars, scope>>

\* The agent as python runs main: no connection yet, no thread yet.
InitStartup ==
  /\ now = 0
  /\ CommandInit
  /\ AudioInit
  /\ TranscriptInit
  /\ FrameInit
  /\ last_cmd = None /\ ser = None /\ port_available \in BOOLEAN
  /\ fw_pc = "poll" /\ fw_cmd = None /\ polled = <<>> /\ sends = <<>>
  /\ arduino = <<>> /\ last_frame_jpeg = NoFrame /\ photos = <<>>
  /\ jpeg_data = NoFrame /\ cam_pc = "capture" /\ cam_pushed = FALSE
  /\ cam_resp = "none" /\ fw_resp = "none"
  /\ SchedOff
  /\ AgentAudioInit
  /\ LockInit
  /\ scope \in {"forwarding", "audio"}
  /\ started = FALSE

\* What the hub answers the command loop after a start-up: two commands, so
\* that a second write is due after a first one has failed.
StartupBodies == {"FORWARD", "LEFT", "PHOTO"}

StartupNext ==
  \/ MainInitSerial
  \/ MainStartThreads
  \/ ~started /\ PortChange
  \/ started /\ scope = "forwarding" /\ LoopsForwardOver(StartupBodies)
  \/ started /\ scope = "audio" /\ AgentAudioNext

SpecStartup == InitStartup /\ [][StartupNext]_vars

\* ----------------------------------------------------------- properties

\* C1: a command read returns the token mapped from the key of the most recent
\* write with a key among W/A/S/D/X, or NOT_MOVING when there was none yet; a
\* write with any other key never changes what a read returns.
C1_ReadReturnsLastAccepted ==
  getLatestCommand = IF lastKey = None THEN "NOT_MOVING" ELSE mapping[lastKey]

\* A rejected POST has just been answered while another write is in flight, and
\* a read still returns the token of the last accepted key.
C1_Witness ==
  /\ cmd_out.req = "post" /\ cmd_out.status = 400
  /\ lastKey = "A" /\ getLatestCommand = "LEFT"
  /\ \E h \in Handlers : cmd_pc[h] = "set"

C3_ContentNeverExceedsTriggers ==
  /\ nContent <= nPass
  /\ nPass + (IF pending_audio_ready THEN 1 ELSE 0) <= nTrig

\* Two polls are under way at once, each between its test and its answer, and
\* each has consumed a trigger of its own.
C3_Witness ==
  /\ \E h1, h2 \in Handlers : h1 # h2 /\ aud_pc[h1] = "send" /\ aud_pc[h2] = "send"
  /\ nPass = nTrig

\* The number of maximal runs of identical consecutive values of a sequence.
Runs(s) == Cardinality({i \in 1..Len(s) : i = 1 \/ s[i] # s[i - 1]})

\* The actuator bytes of the polled values that stand for a movement or a stop.
MappedPolls(s) ==
  LET known == SelectSeq(s, LAMBDA r : first_token_upper(r) \in DOMAIN dirs) IN
    [i \in 1..Len(known) |-> dirs[first_token_upper(known[i])]]

\* A sequence without its consecutive repetitions.
RECURSIVE Dedup(_)
Dedup(s) ==
  IF Len(s) <= 1 THEN s
  ELSE LET front == Dedup(SubSeq(s, 1, Len(s) - 1)) IN
         IF s[Len(s)] = s[Len(s) - 1] THEN front ELSE Append(front, s[Len(s)])

\* The tokens the hub's command cell can hold.
HubTokens == {"NOT_MOVING"} \cup {mapping[k] : k \in MovementKeys}

\* The sequences of values one run of the hub can return: NOT_MOVING until the
\* first accepted key, the token of an accepted key from then on.
HubSequence(s) ==
  /\ \A i \in 1..Len(s) : s[i] \in HubTokens
  /\ \A i \in 2..Len(s) : s[i] = "NOT_MOVING" => s[i - 1] = "NOT_MOVING"

C6_PublishReplacesTextAndExpiry ==
  (prevPub.some /\ lastPub.explicit) =>
    \A n \in 0..(MaxTime + 7) : latest_transcript(n) = Due(n, lastPub)

\* A publish replaced another one that was still visible and had the later
\* expiry; a read after the new expiry and before the old one returned nothing.
C6_Witness ==
  /\ prevPub.some /\ lastPub.some
  /\ lastPub.t < prevPub.t + Max(0, prevPub.d) + 5
  /\ tr_out.req = "get" /\ tr_out.transcript = <<>>
  /\ tr_out.at >= lastPub.t + Max(0, lastPub.d) + 5
  /\ tr_out.at < prevPub.t + Max(0, prevPub.d) + 5

\* The lyric lines are being, or have been, streamed.
Streaming == flow \in {"started", "not_started"}

\* C7: the publish calls made so far are those of the first lines of the parsed
\* list, one call per line and in the order of the list, whatever the offsets
\* and whatever the outcome of each call; once the schedule is over there is
\* one call for every line.
C7_OneCallPerLineInListOrder ==
  Streaming =>
    /\ Len(transcript_calls) = IF sch_pc = "done" THEN Len(lines) ELSE idx - 1
    /\ \A i \in 1..Len(transcript_calls) :
         transcript_calls[i].body = <<"10">> \o lines[i].text

\* A finished schedule of two lines whose offsets are out of order, the first
\* call of which failed.
C7_Witness ==
  /\ Streaming /\ sch_pc = "done"
  /\ Len(lines) = 2 /\ lines[1].ts > lines[2].ts
  /\ Len(transcript_calls) = 2
  /\ transcript_calls[1].outcome = "failed"

\* C8: every publish call of a line is made at a time at least the line's
\* offset after the anchor.
C8_NeverEarly ==
  Streaming =>
    \A i \in 1..Len(transcript_calls) :
      i <= Len(lines) => transcript_calls[i].at - start_time >= lines[i].ts

\* A finished schedule in which one line was published exactly at its offset
\* and another one later than its offset.
C8_Witness ==
  /\ Streaming /\ sch_pc = "done" /\ Len(transcript_calls) = 2
  /\ lines[1].ts > 0
  /\ transcript_calls[1].at - start_time = lines[1].ts
  /\ transcript_calls[2].at - start_time > lines[2].ts

\* C9 as stated: the hub answers a push with an error whenever the stand-alone
\* viewer would (no frame, undecodable text, bytes that are no image), and the
\* slot holds the last well-formed image pushed, once there is one.
C9_MalformedPushRejected ==
  /\ (fr_out.req = "push" /\ receive(fr_out.payload) # 200) => fr_out.status # 200
  /\ lastWellFormed # NoFrame => latest_frame_bytes = lastWellFormed

\* C10: the slot is empty until a push is accepted and then holds the bytes of
\* the push accepted last; a read answers 404 or exactly those bytes.
C10_LatestIsLastAcceptedPush ==
  /\ latest_frame_bytes =
       IF lastPayload = Missing THEN NoFrame ELSE b64decode[lastPayload]
  /\ fr_out.req = "get" =>
       IF fr_out.payload = Missing
       THEN fr_out.status = 404
       ELSE fr_out.status = 200 /\ fr_out.body = b64decode[fr_out.payload]

\* A push replaced the frame of the push before it, a read returned the new
\* frame, and a third push has decoded its frame and is about to store it.
C10_Witness ==
  /\ prevPayload = "b64:jpegA"
  /\ fr_out.req = "get" /\ fr_out.body = "jpegB"
  /\ \E h \in Handlers : fr_pc[h] = "store" /\ fr_bytes[h] = "jpegA"

\* C11: a trigger is answered NotFound (404) only while ask.mp3 is absent, and
\* that answer leaves the pending flag as it was; a trigger goes on to set the
\* flag only after it found the file, and its store leaves the flag true,
\* whether it was true before or not.
C11_TriggerNotFoundLeavesFlag ==
  [][ /\ (aud_out' # aud_out /\ aud_out'.req = "trigger" /\ aud_out'.status = 404)
          => (~audio_file /\ pending_audio_ready' = pending_audio_ready)
      /\ \A h \in Handlers :
           (aud_pc[h] = "idle" /\ aud_pc'[h] = "set") => audio_file
      /\ nTrig' # nTrig
          => (aud_out'.req = "trigger" /\ aud_out'.status = 200
              /\ pending_audio_ready') ]_vars

\* Two triggers set the flag with no poll between them, the file went, and a
\* third trigger was answered 404: the flag is still set.
C11_Witness ==
  /\ aud_out.req = "trigger" /\ aud_out.status = 404
  /\ ~audio_file
  /\ trigSincePoll = 2 /\ pending_audio_ready

\* ------------------------------------- TranscriptBoard, lenient parsing

\* Bodies whose first token float() refuses although it was meant as a
\* duration, and bodies that carry a text only, of one word and of two.
MalformedPrefixBodies == { <<"3s", "hi">> }
TextOnlyBodies == { <<"hello">>, <<"hello", "world">> }
LenientBodies == MalformedPrefixBodies \cup TextOnlyBodies

\* The hub's transcript handlers, given such bodies.
TranscriptLenientNext ==
  \/ \E raw \in LenientBodies : TranscriptPost(raw)
  \/ \E r \in BagToSet(tr_req) : TranscriptStore(r)
  \/ TranscriptClock
  \/ \E r \in BagToSet(tr_req) : TranscriptRead(r)
  \/ TranscriptReturn
  \/ (tr_out = NoAnswer /\ Tick)

SpecTranscriptLenient == Init /\ [][TranscriptLenientNext]_vars

\* C12: a publish whose duration prefix float() refuses is stored, not
\* rejected, and with duration 0: the cell's expiry is its publish time + 5,
\* and reads return a text exactly until then.
C12_MalformedPrefixDefaultsToZero ==
  (lastPub.some /\ lastPub.text \in MalformedPrefixBodies) =>
    /\ transcript_expire_time = lastPub.t + 5
    /\ \A n \in 0..(MaxTime + 7) :
         (latest_transcript(n) # <<>>) <=> (n < lastPub.t + 5)
    /\ tr_out.req = "post" => tr_out.status = 200

\* The publish "3s hi" was stored and a read 4 seconds after it returned a text.
C12_Witness ==
  /\ lastPub.some /\ lastPub.text = <<"3s", "hi">>
  /\ tr_out.req = "get" /\ tr_out.at = lastPub.t + 4
  /\ tr_out.transcript # <<>>

\* C13 as stated: a publish of a text without a duration is stored with
\* duration 0 and its whole text, so a read at the time of the publish returns
\* all the words that were sent.
C13_TextOnlyBodyKeepsWholeText ==
  (lastPub.some /\ lastPub.text \in TextOnlyBodies) =>
    /\ transcript_expire_time = lastPub.t + 5
    /\ latest_transcript(lastPub.t) = lastPub.text

\* The calls that publish a lyric line, and those that report a failed playback.
LyricCalls == {i \in 1..Len(transcript_calls) : transcript_calls[i].body[1] = "10"}
PlaybackFailureCalls ==
  {i \in 1..Len(transcript_calls) :
     transcript_calls[i].body = <<"5", "Error", "starting", "Spotify", "playback">>}

\* C14 as stated: when the playback did not start (play_song raised, or found
\* no track, no device, or could not start the track), no lyric line is
\* published and the flow ends with one playback-failure message.
C14_NoLyricsWithoutPlayback ==
  flow \in {"not_started", "playback_failed"} =>
    /\ LyricCalls = {}
    /\ sch_pc = "done" => Cardinality(PlaybackFailureCalls) = 1

\* C15: every byte written to the actuator, delivered or not, is one of W, A,
\* S, D, X; a write is only ever prepared for a polled token of the table, so
\* that a polled PHOTO or unknown token leads to no write.
C15_OnlyMovementBytesWritten ==
  /\ \A i \in 1..Len(sends) : sends[i] \in MovementKeys
  /\ \A i \in 1..Len(arduino) : arduino[i] \in MovementKeys
  /\ fw_pc = "send" =>
       /\ fw_cmd \in MovementKeys
       /\ first_token_upper(polled[Len(polled)]) \in
            {"FORWARD", "BACKWARD", "LEFT", "RIGHT", "NOT", "STOP", "NOTMOVING",
             "NOT_MOVING", "NOT MOVING"}
  /\ Len(sends) + (IF fw_pc = "send" THEN 1 ELSE 0) <=
       Cardinality({i \in 1..Len(polled) :
                      first_token_upper(polled[i]) \notin {"PHOTO", "BOGUS", ""}})

\* PHOTO, an unknown token and FORWARD were polled: one snapshot was taken and
\* the only byte written is W.
C15_Witness ==
  /\ fw_pc = "poll"
  /\ polled = <<"PHOTO", "bogus", "FORWARD">>
  /\ sends = <<"W">> /\ arduino = <<"W">>
  /\ Len(photos) = 1

\* C16: a PHOTO polled while no frame has been captured writes nothing; the
\* loop goes on to a write only with the frame it read from the cell under the
\* lock, and every write stores exactly that frame, whatever the camera has
\* captured since.
C16_SnapshotWritesFrameRead ==
  [][ /\ (polled' # polled /\ first_token_upper(polled'[Len(polled')]) = "PHOTO"
            /\ last_frame_jpeg = NoFrame)
          => (photos' = photos /\ fw_pc' = "poll")
      /\ (fw_pc # "snap" /\ fw_pc' = "snap")
          => (jpeg_data' = last_frame_jpeg /\ jpeg_data' # NoFrame)
      /\ photos' # photos
          => (fw_pc = "snap"
              /\ photos' = Append(photos, [name |-> now, data |-> jpeg_data])) ]_vars

\* A PHOTO was polled before the first capture and wrote nothing; a second one
\* wrote the frame it had read, although the camera has replaced it since.
C16_Witness ==
  /\ polled = <<"PHOTO", "PHOTO">>
  /\ Len(photos) = 1 /\ photos[1].data = "jpegA"
  /\ last_frame_jpeg = "jpegB"
  /\ fw_pc = "poll"

\* C17 as stated: the token a command read returns is always one of FORWARD,
\* BACKWARD, LEFT, RIGHT, NOT_MOVING, PHOTO.
C17_ReadTokenInVocabulary ==
  /\ getLatestCommand \in
       {"FORWARD", "BACKWARD", "LEFT", "RIGHT", "NOT_MOVING", "PHOTO"}
  /\ cmd_out.req = "get" =>
       cmd_out.body \in {"FORWARD", "BACKWARD", "LEFT", "RIGHT", "NOT_MOVING", "PHOTO"}

\* ------------------------------------------------ the hub's four cells

\* The four cells of the hub.
CommandCell == current_command
PendingCell == pending_audio_ready
TranscriptCell == <<current_transcript, transcript_expire_time>>
FrameCell == latest_frame_bytes

\* No request is being served.
HubIdle ==
  /\ \A h \in Handlers : cmd_pc[h] = "idle" /\ aud_pc[h] = "idle" /\ fr_pc[h] = "idle"
  /\ tr_req = EmptyBag
  /\ tr_out = NoAnswer

\* For each kind of write, an input the hub accepts and one it rejects.
HubKeys == {"W", "P"}
HubPayloads == {Missing, "b64:jpegA"}
HubBodies == { <<>>, <<"1", "hello">> }

\* The hub serving writes to its four cells, one request after the other.
HubNext ==
  \/ HubIdle /\ \E h \in Handlers, raw \in HubKeys : CommandPost(h, raw)
  \/ \E h \in Handlers : CommandSet(h)
  \/ HubIdle /\ \E h \in Handlers, payload \in HubPayloads : FramePost(h, payload)
  \/ \E h \in Handlers : FrameStore(h)
  \/ HubIdle /\ \E raw \in HubBodies : TranscriptPost(raw)
  \/ \E r \in BagToSet(tr_req) : TranscriptStore(r)
  \/ TranscriptReturn
  \/ HubIdle /\ \E h \in Handlers : SendAudioCheck(h)
  \/ \E h \in Handlers : SendAudioSet(h)
  \/ HubIdle /\ AudioFileRemoved
  \/ HubIdle /\ AudioFileCreated

SpecHub == Init /\ [][HubNext]_vars

\* C18: a step that answers a request with an error changes none of the four
\* cells; the command cell changes only by the write of a key among W/A/S/D/X;
\* and a step of the handlers of one cell changes no other cell.
C18_RejectedChangesNothingAcceptedOwnCell ==
  [][ /\ ( \/ (cmd_out' # cmd_out /\ cmd_out'.status = 400)
            \/ (fr_out' # fr_out /\ fr_out'.status \in {400, 500})
            \/ (tr_out' # tr_out /\ tr_out'.status = 400)
            \/ (aud_out' # aud_out /\ aud_out'.status = 404) )
          => UNCHANGED <<CommandCell, PendingCell, TranscriptCell, FrameCell>>
      /\ CommandCell' # CommandCell
          => (lastKey' \in MovementKeys /\ CommandCell' = mapping[lastKey'])
      /\ (cmd_pc' # cmd_pc \/ cmd_out' # cmd_out)
          => UNCHANGED <<PendingCell, TranscriptCell, FrameCell>>
      /\ (aud_pc' # aud_pc \/ aud_out' # aud_out)
          => UNCHANGED <<CommandCell, TranscriptCell, FrameCell>>
      /\ (tr_req' # tr_req \/ tr_out' # tr_out)
          => UNCHANGED <<CommandCell, PendingCell, FrameCell>>
      /\ (fr_pc' # fr_pc \/ fr_out' # fr_out)
          => UNCHANGED <<CommandCell, PendingCell, TranscriptCell>> ]_vars

\* All four cells hold a written value and the request answered last was a
\* rejected command write.
C18_Witness ==
  /\ cmd_out.req = "post" /\ cmd_out.status = 400
  /\ current_command = "FORWARD"
  /\ pending_audio_ready
  /\ current_transcript = <<"hello">>
  /\ latest_frame_bytes = "jpegA"
  /\ fr_out.status = 400 /\ tr_out = NoAnswer /\ nPub = 2 /\ aud_out.status = 404

\* C19: each trigger leads to at most one saved audio file and at most one run
\* of the processing pipeline on the agent, the save comes before the run, and
\* audio whose answer was lost after the hub cleared the flag is not delivered
\* again by a later poll: saved files and lost answers together never exceed
\* the polls answered with the audio, which never exceed the polls that found
\* the flag, which never exceed the triggers; every run is of a file saved
\* before it, one run per file.
C19_OneArtifactOneRunPerTrigger ==
  /\ Len(audio_saved) + nLost + (IF ap_pc = "save" THEN 1 ELSE 0) <= nContent
  /\ nContent <= nPass
  /\ nPass + (IF pending_audio_ready THEN 1 ELSE 0) <= nTrig
  /\ Len(pipeline_runs) <= Len(audio_saved)
  /\ \A i \in 1..Len(pipeline_runs) : pipeline_runs[i] = audio_saved[i]
  /\ ap_pc = "process" => Len(audio_saved) = Len(pipeline_runs) + 1
  /\ ap_pc # "process" =>
       Len(audio_saved) - Len(pipeline_runs) = 0

\* Two triggers were made; the answer to the first was lost after the hub had
\* cleared the flag, and the second trigger's audio was saved and processed
\* while a request the loop gave up on is still with the hub.
C19_Witness ==
  /\ nTrig = 2
  /\ nLost = 1
  /\ ap_abandoned = 1
  /\ ap_resp = "content"
  /\ Len(audio_saved) = 1
  /\ Len(pipeline_runs) = 1
  /\ ap_pc = "sleep"
  /\ ~pending_audio_ready

\* C20: a timeout, a transport failure or a non-OK status on the call of the
\* capture loop, of the command-forwarding loop or of the audio-consuming loop
\* does not end the loop: after a failed poll the command loop is back at its
\* GET, after a failed push the capture loop reaches its next push with a frame
\* it has not pushed before, after a lost or non-OK answer the audio loop sends
\* its next GET; and a frame is pushed once, never kept to be sent again.
C20_FailureNeverEndsALoop ==
  /\ [](cam_pc = "push" => ~cam_pushed)
  /\ [](fw_pc \in {"poll", "failed", "send", "snap"})
  /\ [](cam_pc \in {"capture", "push", "failed"})
  /\ [](ap_pc \in {"sleep", "get", "save", "process"})
  /\ (fw_pc = "failed") ~> (fw_pc = "poll" /\ Len(polled) < MaxPolls)
  /\ (cam_pc = "failed") ~> (cam_pc = "push" /\ ~cam_pushed)
  /\ (ap_pc = "sleep" /\ ap_resp \in {"lost", "status"}) ~> (ap_pc = "get")

\* After a poll that raised, the command loop is back at its GET; after a push
\* answered with a non-OK status, the capture loop holds a new frame to push.
C20_Witness ==
  /\ scope = "forwarding"
  /\ fw_resp = "exception" /\ fw_pc = "poll" /\ polled = <<"FORWARD">>
  /\ cam_resp = "status" /\ cam_pc = "push" /\ ~cam_pushed
  /\ last_frame_jpeg = "jpegB"

\* C21 as stated: the schedule is anchored at the instant the playback was
\* started: once play_song has returned with the playback started, no line of
\* offset o is published earlier than o after that return.
C21_NeverEarlierThanPlaybackStart ==
  (Streaming /\ flow = "started") =>
    \A i \in 1..Len(transcript_calls) :
      i <= Len(lines) => transcript_calls[i].at - played_at >= lines[i].ts

\* C22: no thread holds more than one lock, no thread does network or disk I/O
\* while it holds a lock, and no state is a lock deadlock: a lock that is held
\* is held by a thread that can take its next step, so every waiting thread
\* gets its lock.
C22_OneLockNoIONoDeadlock ==
  /\ \A t \in LockThreads : Cardinality(Held(t)) <= 1
  /\ \A t \in LockThreads :
       (Running(t) /\ NextStep(t).kind = "io") => Held(t) = {}
  /\ \A t \in LockThreads : ~Running(t) => Held(t) = {}
  /\ \A l \in Locks : lk_holder[l] # Free => CanStep(lk_holder[l])
  /\ (\E t \in LockThreads : Running(t)) => (\E t \in LockThreads : CanStep(t))

\* One handler sends the audio file with no lock held while another holds
\* pending_audio_lock; on the agent the
\* command loop writes its snapshot while the capture loop holds last_frame_lock.
C22_Witness ==
  /\ lk_op[1] = "audio" /\ NextStep(1).kind = "io" /\ lk_pos[1] = 3
  /\ lk_op[2] = "send_audio" /\ lk_holder["pending_audio_lock"] = 2
  /\ lk_op[CommandThread] = "photo" /\ lk_pos[CommandThread] = 4
  /\ lk_holder["last_frame_lock"] = CameraThread

\* init_serial is in its retry loop: no connection, the port away, and either
\* main or the command loop inside send_command_to_arduino waiting for it.
Retrying == ser = None /\ ~port_available /\ (~started \/ fw_pc = "send")

\* The next step of the capture loop, and of the audio loop with the hub that
\* answers it; neither exists before main has started the threads.
CaptureLoopStep ==
  /\ started
  /\ \/ \E jpeg \in {"jpegA", "jpegB"} : CameraCapture(jpeg)
     \/ \E outcome \in {"ok", "status", "exception"} : CameraPush(outcome)
     \/ CameraBackoff
AudioLoopStep ==
  /\ started
  /\ \/ AgentAudioGet
     \/ AgentAudioTimeout
     \/ AbandonedAnswer
     \/ \E h \in Handlers : AudioTestAndClear(h)
     \/ \E h \in Handlers : AudioSendFile(h)
     \/ \E delivered \in BOOLEAN : AgentAudioResponse(delivered)
     \/ \E written \in BOOLEAN : AgentAudioSave(written)
     \/ AgentAudioProcess

\* C23 as stated: whenever init_serial is retrying because the port is away,
\* at start-up included, the capture loop and the audio loop can take their
\* next step.
C23_OnlyCommandLoopBlocked ==
  Retrying => (ENABLED CaptureLoopStep /\ ENABLED AudioLoopStep)

\* C24: a write that fails discards the connection handle; the connection is
\* reopened only inside a send attempt; and a send attempt that finds no handle
\* stays in init_serial, writing nothing, until the port has been opened, so
\* every write is made on an open connection.
C24_HandleDroppedAndLazilyReopened ==
  [][ /\ (sends' # sends /\ arduino' = arduino) => ser' = None
      /\ (ser = None /\ ser' # None) => (fw_pc = "send" /\ fw_pc' = "send")
      /\ (fw_pc = "send" /\ ser = None) => (fw_pc' = "send" /\ sends' = sends)
      /\ sends' # sends => ser # None ]_vars

\* A first write failed, the following send attempt reopened the connection and
\* its write reached the actuator.
C24_Witness ==
  /\ sends = <<"W", "A">>
  /\ arduino = <<"A">>
  /\ ser = "open"
  /\ fw_pc = "poll"

\* A lyric schedule is emitting lines.
Emitting == sch_pc \in {"wait", "send"}

\* The next step of the audio loop's polling: the GET, the hub's answer to it,
\* its arrival.
AudioPollStep ==
  \/ AgentAudioGet
  \/ /\ ap_pc = "get"
     /\ \E h \in Handlers : AudioTestAndClear(h) \/ AudioSendFile(h)
  \/ \E delivered \in BOOLEAN : AgentAudioResponse(delivered)

\* C25 as stated: the audio loop and the lyric scheduler are independent: while
\* a schedule is emitting lines and a trigger is pending, the audio loop can
\* take the next step of its polling.
C25_AudioLoopPollsDuringSchedule ==
  (Emitting /\ pending_audio_ready) => ENABLED AudioPollStep

\* The steps of processing a delivered audio that can fail.
FailureSteps ==
  {"client", "transcription", "completion", "text_to_speech", "lyric_lookup",
   "playback", "report"}

\* C27: no failure while processing a delivered audio ends the audio loop:
\* whichever step failed, in the music flow or in the other one, the loop is
\* never dead and it sends its next GET to the hub.
C27_NoPipelineFailureIsFatal ==
  /\ [](ap_pc \in {"sleep", "get", "save", "process"})
  /\ [](pl_failed \in FailureSteps \cup {"none"})
  /\ (pl_failed \in FailureSteps) ~> (ap_pc = "get")

\* C27 witness: the second audio ended in the NameError of the trailing report,
\* and the loop has sent its next GET.
C27_Witness ==
  /\ ap_pc = "get"
  /\ pl_failed = "report"
  /\ Len(pipeline_runs) = 2

\* C26 as stated, for the snapshots: every snapshot path is written at most
\* once, so no two snapshots were written under the same name.
C26_SnapshotsWrittenOnce ==
  \A i, j \in 1..Len(photos) : i # j => photos[i].name # photos[j].name

\* Every character of a text is a digit, and there is one at least.
AllDigits(text) == text # <<>> /\ \A i \in 1..Len(text) : text[i] \in Digits

\* The decimal number a run of digits writes, place by place.
RECURSIVE PlaceSum(_, _)
PlaceSum(text, i) ==
  IF i > Len(text) THEN 0
  ELSE DigitValue(text[i]) * Pow10(Len(text) - i) + PlaceSum(text, i + 1)

\* The places (colon, point, closing bracket) at which a line reads
\* [mm:ss.cc]text.
Timestamped(line, c, d, b) ==
  /\ c < d /\ d < b
  /\ line[1] = "["
  /\ AllDigits(SubSeq(line, 2, c - 1)) /\ line[c] = ":"
  /\ AllDigits(SubSeq(line, c + 1, d - 1)) /\ line[d] = "."
  /\ AllDigits(SubSeq(line, d + 1, b - 1)) /\ line[b] = "]"

MatchesPattern(line) ==
  \E c, d, b \in 1..Len(line) : Timestamped(line, c, d, b)

\* A parsed line is what the claim says of the input line: mm*60 + ss.cc and the
\* text with no blank left at either end.
ParsedFrom(parsed, line) ==
  \E c, d, b \in 1..Len(line) :
    /\ Timestamped(line, c, d, b)
    /\ parsed.ts * Pow10(b - d - 1) =
         ( PlaceSum(SubSeq(line, 2, c - 1), 1) * 60
           + PlaceSum(SubSeq(line, c + 1, d - 1), 1) ) * Hundredths * Pow10(b - d - 1)
         + PlaceSum(SubSeq(line, d + 1, b - 1), 1) * Hundredths
    /\ \E i \in b + 1..Len(line) + 1, j \in b..Len(line) :
         /\ parsed.text = SubSeq(line, i, j)
         /\ \A k \in b + 1..i - 1 : line[k] \in Whitespace
         /\ \A k \in j + 1..Len(line) : line[k] \in Whitespace
         /\ parsed.text # <<>> =>
              (line[i] \notin Whitespace /\ line[j] \notin Whitespace)

\* The lines of a text: no newline inside one, and joined by newlines they are
\* the text.
InputLines(text) ==
  CHOOSE pieces \in UNION {[1..n -> LrcRawLines] : n \in 1..MaxLines} :
    join(pieces) = text

\* The matching lines of the input, by position.
MatchingAt(pieces) == {i \in 1..Len(pieces) : MatchesPattern(pieces[i])}

\* C28: parsing returns exactly the lines that match [mm:ss.cc]text, in input
\* order, each as (mm*60 + ss.cc, trimmed text); the lines that fail the pattern
\* are dropped and change nothing else; an empty input gives an empty list.
C28_ParseKeepsExactlyMatchingLines ==
  sch_pc = "done" =>
    /\ synced_lyrics = <<>> => lines = <<>>
    /\ synced_lyrics # <<>> =>
         LET pieces == InputLines(synced_lyrics)
             kept == MatchingAt(pieces)
         IN /\ Len(lines) = Cardinality(kept)
            /\ \A i \in kept :
                 ParsedFrom(lines[Cardinality({j \in kept : j <= i})], pieces[i])

\* C28 witness: of a padded line with a minute and a line with no fraction, the
\* first alone was returned, as 62.5 seconds and the text without its blanks.
C28_Witness ==
  /\ sch_pc = "done"
  /\ synced_lyrics = <<"[", "1", ":", "0", "2", ".", "5", "]", " ", "d", "i", " ", "\n",
                       "[", "0", ":", "1", "]", "l", "a">>
  /\ lines = << [ts |-> 6250, text |-> <<"d", "i">>] >>

\* C29: a shutdown received while a lyric schedule runs aborts what remains of
\* it: once the agent is down no further line is published, and every line that
\* was published is a whole line of the list, in its place.
C29_ShutdownAbortsRemainingLines ==
  /\ [][~started => (transcript_calls' = transcript_calls /\ ~started')]_vars
  /\ [](Streaming =>
         /\ Len(transcript_calls) <= Len(lines)
         /\ \A i \in 1..Len(transcript_calls) :
              transcript_calls[i].body = <<"10">> \o lines[i].text)

\* C29 witness: the agent was shut down with the first of two lines published
\* and the second one waiting; time has passed since and the second line, due
\* by now, was not published.
C29_Witness ==
  /\ ~started
  /\ sch_pc = "killed"
  /\ Len(lines) = 2 /\ Len(transcript_calls) = 1 /\ idx = 2
  /\ line_due(now - start_time, lines[2].ts)

\* The text and the expiry the publish of body raw at time t computes.
PublishOf(pub) ==
  { PublishRequest(raw, pub.t) : raw \in {b \in TranscriptBodies \ {<<>>} :
                                           Asked(b, pub.t) = pub} }

\* C30: whatever the interleaving of publishes and reads, the stored text and
\* the stored expiry come from the same publish, the one stored last, and a read
\* returns a text only if its time is before the expiry of that same publish.
C30_TextAndExpiryFromOnePublish ==
  /\ ~lastPub.some => (current_transcript = <<>> /\ transcript_expire_time = 0)
  /\ lastPub.some =>
       \E p \in PublishOf(lastPub) :
         /\ current_transcript = p.text
         /\ transcript_expire_time = p.expires_at
         /\ (tr_out.req = "get" /\ tr_out.transcript # <<>>) =>
              (tr_out.transcript = p.text /\ tr_out.at < p.expires_at)
         /\ (tr_out.req = "get" /\ tr_out.transcript = <<>>) =>
              tr_out.at >= p.expires_at
  /\ (tr_out.req = "get" /\ ~lastPub.some) => tr_out.transcript = <<>>

\* C30 witness: two publishes were served at once and stored in the reverse of
\* the order they arrived in; a read returns the text stored last, judged
\* against the expiry stored with it, which is the earlier of the two.
C30_Witness ==
  /\ lastPub.some /\ prevPub.some
  /\ lastPub.t < prevPub.t
  /\ lastPub.text # prevPub.text
  /\ transcript_expire_time < prevPub.t + display_seconds(prevPub.d)
  /\ tr_out.req = "get"
  /\ tr_out.transcript = lastPub.text

\* ------------------------------------- lyric lines published to the hub

\* The texts of the lines the parser can return, the empty one among them.
LyricTexts == { l.text : l \in {m \in LrcLines : m.ok} }

\* "10 " + text as it reaches the hub's handler: raw.strip() drops the blank
\* that ends the body of a line without text, and split() finds the tokens.
lyric_body(text) == <<"10">> \o text

\* The hub's transcript handlers, given the bodies of the lyric scheduler.
LyricBoardNext ==
  \/ \E text \in LyricTexts : TranscriptPost(lyric_body(text))
  \/ \E r \in BagToSet(tr_req) : TranscriptStore(r)
  \/ TranscriptClock
  \/ \E r \in BagToSet(tr_req) : TranscriptRead(r)
  \/ TranscriptReturn
  \/ (tr_out = NoAnswer /\ Tick)

SpecLyricBoard == Init /\ [][LyricBoardNext]_vars

\* C31 as stated: the body published for a parsed line, a line without text
\* included, is stored with duration 10 and with exactly the line's text, and a
\* read at the time of the publish returns that text, never the duration token.
C31_LineStoredWithItsTextAndDuration ==
  lastPub.some =>
    /\ current_transcript \in LyricTexts
    /\ transcript_expire_time = lastPub.t + 10 + GRACE
    /\ (tr_out.req = "get" /\ tr_out.at = lastPub.t) =>
         (tr_out.transcript \in LyricTexts /\ tr_out.transcript # <<"10">>)

\* C32 as stated: the hub's command has been the same movement or stop token
\* at every poll, the polls succeeded, and the last of them found nothing left
\* to send; then the most recent byte the actuator received is the byte mapped
\* from that token, also when a write failed along the way.
C32_ConstantCommandReachesActuator ==
  ( /\ fw_pc = "poll"
    /\ polled # <<>>
    /\ \A i \in 1..Len(polled) : polled[i] = polled[1]
    /\ first_token_upper(polled[1]) \in DOMAIN dirs
    /\ Len(polled) > Len(sends) )
  => (arduino # <<>> /\ arduino[Len(arduino)] = dirs[first_token_upper(polled[1])])

\* C33: two consecutive send attempts of the forwarding loop never carry the
\* same byte: an attempt is made only for a byte that differs from last_cmd,
\* last_cmd is the byte of the latest attempt, and nothing but an attempt (no
\* PHOTO, unknown token, failed poll or other status) changes it.
C33_ConsecutiveAttemptsDiffer ==
  /\ [](\A i \in 1..Len(sends) - 1 : sends[i] # sends[i + 1])
  /\ [](fw_pc = "send" => fw_cmd # last_cmd)
  /\ [](last_cmd = IF sends = <<>> THEN None ELSE sends[Len(sends)])
  /\ [][last_cmd' # last_cmd => sends' = Append(sends, last_cmd')]_vars

\* C33 witness: FORWARD was attempted once (the write failed), a PHOTO came in
\* between, and the second FORWARD made no attempt.
C33_Witness ==
  /\ polled = <<"FORWARD", "PHOTO", "FORWARD">>
  /\ sends = <<"W">> /\ arduino = <<>>
  /\ last_cmd = "W"
  /\ fw_pc = "poll"

\* C34: through POST /command and the keyboard loop the command cell never
\* holds PHOTO: a write reaches the cell only with a key among W/A/S/D/X, so no
\* command read returns PHOTO and the token the agent takes from a read is
\* never the one that starts its snapshot path.
C34_CommandCellNeverPhoto ==
  /\ current_command # "PHOTO"
  /\ \A h \in Handlers : cmd_pc[h] = "set" => cmd_key[h] \in MovementKeys
  /\ first_token_upper(getLatestCommand) # "PHOTO"
  /\ cmd_out.req = "get" => first_token_upper(cmd_out.body) # "PHOTO"

\* C34 witness: a line typed at the keyboard was refused (P is among the lines
\* tried) while the cell holds RIGHT and a POST of X is about to be stored.
C34_Witness ==
  /\ cmd_out.req = "key" /\ cmd_out.status = 400
  /\ current_command = "RIGHT"
  /\ \E h \in Handlers : cmd_pc[h] = "set" /\ cmd_key[h] = "X"

\* The pipeline is in the flow for a transcript that names no music, or has
\* left it by an exception.
InChatFlow == pl_pc \in {"chat", "tts", "reply", "report", "raised"}

====
